---------------------------- MODULE Spec2Model ----------------------------
(***************************************************************************)
(* Connection-registry consistency layer of the admin API backend:         *)
(* cache-aside reads with namespace invalidation (app/core/cache.py,       *)
(* app/api/v1/endpoints/databases.py), slug derivation and uniqueness      *)
(* (app/utils/slug.py), the field cipher (app/core/crypto.py) and the SQL  *)
(* backup generator (app/utils/backup.py).                                 *)
(*                                                                         *)
(* Text is a sequence of one-character strings.  Fixed pieces of generated *)
(* SQL are single multi-character tokens; user data is always spelled      *)
(* character by character so that escaping and lexing act on it.           *)
(***************************************************************************)
EXTENDS Integers, Sequences, FiniteSets, TLC

VARIABLES
    store,        \* rows of the "databases" table (committed state)
    cache,        \* the Redis keyspace: key -> [value, ttl]
    redis_client, \* module global app.core.cache.redis_client
    redis_up,     \* whether the Redis server answers (environment)
    now,          \* the database server's clock, func.now()
    next_id,      \* number of uuid4() values drawn so far
    pc,           \* per client: position inside its request handler
    ctx,          \* per client: the request and the handler's locals
    resp,         \* per client: the response of its last finished request
    hist,         \* history: what the properties need to remember of the past
    nreq,         \* number of requests started
    target,       \* a restore target the backup script is replayed against
    fn            \* one call of a library function: its argument and results

vars == <<store, cache, redis_client, redis_up, now, next_id, pc, ctx, resp,
          hist, nreq, target, fn>>

-----------------------------------------------------------------------------
(* Characters and text                                                     *)

LowerSeq == <<"a","b","c","d","e","f","g","h","i","j","k","l","m",
              "n","o","p","q","r","s","t","u","v","w","x","y","z">>
UpperSeq == <<"A","B","C","D","E","F","G","H","I","J","K","L","M",
              "N","O","P","Q","R","S","T","U","V","W","X","Y","Z">>
DigitSeq == <<"0","1","2","3","4","5","6","7","8","9">>

Range(s) == {s[i] : i \in DOMAIN s}

LowerChars == Range(LowerSeq)
DigitChars == Range(DigitSeq)

\* str.lower() on one character
ToLower(c) ==
    IF \E i \in DOMAIN UpperSeq : UpperSeq[i] = c
    THEN LowerSeq[CHOOSE i \in DOMAIN UpperSeq : UpperSeq[i] = c]
    ELSE c

\* str.lower()
Lower(s) == [i \in DOMAIN s |-> ToLower(s[i])]

\* str(n) for a natural number
RECURSIVE IntToStr(_)
IntToStr(n) ==
    IF n < 10 THEN <<DigitSeq[n + 1]>>
    ELSE IntToStr(n \div 10) \o <<DigitSeq[(n % 10) + 1]>>

\* int(s) for a text of decimal digits
RECURSIVE StrToInt(_)
StrToInt(s) ==
    IF s = <<>> THEN 0
    ELSE 10 * StrToInt(SubSeq(s, 1, Len(s) - 1))
         + ((CHOOSE i \in DOMAIN DigitSeq : DigitSeq[i] = s[Len(s)]) - 1)

\* whether text `part` occurs in text `s` as a contiguous run
Contains(s, part) ==
    \E i \in 1..(Len(s) - Len(part) + 1) :
        SubSeq(s, i, i + Len(part) - 1) = part

-----------------------------------------------------------------------------
(* Slug Resolver: app/utils/slug.py                                        *)

IsSlugChar(c) == c \in LowerChars \cup DigitChars

\* re.sub(r'[^a-z0-9]+', '-', s): every maximal run of other characters
\* becomes one hyphen
RECURSIVE ReSubRuns(_)
ReSubRuns(s) ==
    IF s = <<>> THEN <<>>
    ELSE IF IsSlugChar(s[1]) THEN <<s[1]>> \o ReSubRuns(Tail(s))
    ELSE IF Len(s) > 1 /\ ~IsSlugChar(s[2]) THEN ReSubRuns(Tail(s))
    ELSE <<"-">> \o ReSubRuns(Tail(s))

\* str.strip('-')
RECURSIVE StripHyphens(_)
StripHyphens(s) ==
    IF s = <<>> THEN <<>>
    ELSE IF s[1] = "-" THEN StripHyphens(Tail(s))
    ELSE IF s[Len(s)] = "-" THEN StripHyphens(SubSeq(s, 1, Len(s) - 1))
    ELSE s

\* a slug derivation without the final strip
generate_slug_unstripped(name) == ReSubRuns(Lower(name))

generate_slug(name) == StripHyphens(ReSubRuns(Lower(name)))

\* a suffix that starts one too high
SlugWithCounterSkipping(base_slug, counter) ==
    base_slug \o <<"-">> \o IntToStr(counter + 1)

\* f"{base_slug}-{counter}"
SlugWithCounter(base_slug, counter) == base_slug \o <<"-">> \o IntToStr(counter)

\* an existence query that never finds a row
SlugNeverExists(rows, slug) == FALSE

\* db.query(Database).filter(Database.slug == slug).first() is not None
SlugExists(rows, slug) == \E r \in rows : r.slug = slug

-----------------------------------------------------------------------------
(* Field Cipher: app/core/crypto.py                                        *)

\* padding.PKCS7(128): blocks of 128 bits
BlockBytes == 16

\* the byte of value k that PKCS#7 appends k times
PadByteSeq == <<"#01","#02","#03","#04","#05","#06","#07","#08",
                "#09","#10","#11","#12","#13","#14","#15","#16">>

\* characters user-supplied text is drawn from in this model
SymbolChars == {" ", "-", "!", "'", "\n", ";", ":", "/", "@", "_"}
TextChars == LowerChars \cup Range(UpperSeq) \cup DigitChars \cup SymbolChars

\* bytes a padded plaintext is made of
PlainBytes == TextChars \cup Range(PadByteSeq)

\* padder.update(plaintext.encode('utf-8')) + padder.finalize()
Pkcs7Pad(bytes) ==
    LET k == BlockBytes - (Len(bytes) % BlockBytes)
    IN  bytes \o [i \in 1..k |-> PadByteSeq[k]]

\* unpadder.update(padded) + unpadder.finalize(); raises on bad padding
Pkcs7PadOk(padded) ==
    /\ Len(padded) > 0
    /\ Len(padded) % BlockBytes = 0
    /\ \E k \in DOMAIN PadByteSeq :
          /\ padded[Len(padded)] = PadByteSeq[k]
          /\ \A i \in (Len(padded) - k + 1)..Len(padded) : padded[i] = PadByteSeq[k]

Pkcs7Unpad(padded) ==
    LET k == CHOOSE k \in DOMAIN PadByteSeq : padded[Len(padded)] = PadByteSeq[k]
    IN  SubSeq(padded, 1, Len(padded) - k)

\* The image of one padded byte under AES-256-CBC with the fixed
\* ENCRYPTION_KEY / ENCRYPTION_IV, base64-encoded.  The cipher is a keyed
\* bijection; it is kept symbolic: "~b" is readable only through
\* CipherByteInv, i.e. with the key.
CipherByte(b) == "~" \o b

IsCipherByte(c) == \E b \in PlainBytes : CipherByte(b) = c

CipherByteInv(c) == CHOOSE b \in PlainBytes : CipherByte(b) = c

\* encrypt_connection_string
encrypt_connection_string(plaintext) ==
    IF plaintext = <<>> THEN <<>>
    ELSE LET padded_data == Pkcs7Pad(plaintext)
         IN  [i \in DOMAIN padded_data |-> CipherByte(padded_data[i])]

\* the value None
NoneVal == <<"None">>

\* an exception that leaves a function, as a value no text is equal to
Raised(exc) == <<"raise", exc>>
IsRaised(value) == Len(value) = 2 /\ value[1] = "raise"

\* base64.b64decode(encrypted), non-validating: characters outside the
\* base64 alphabet are discarded before decoding (of the characters of this
\* model those are SymbolChars without "/").  What is left must be the
\* base64 text of cipher bytes; a leftover character of the alphabet that
\* belongs to no such text stands for data b64decode rejects
\* (binascii.Error).
Base64Skipped == SymbolChars \ {"/"}
Base64Data(encrypted) == SelectSeq(encrypted, LAMBDA c : c \notin Base64Skipped)
Base64Rejects(encrypted) ==
    \E i \in DOMAIN Base64Data(encrypted) : ~IsCipherByte(Base64Data(encrypted)[i])

\* the try block of decrypt_connection_string (crypto.py 85-102): the
\* plaintext, or the exception raised by b64decode, by decryptor.finalize()
\* (data that is not a whole number of blocks) or by unpadder.finalize()
\* (no data, or invalid padding)
decrypt_try(encrypted) ==
    IF Base64Rejects(encrypted) THEN Raised("binascii.Error")
    ELSE LET encrypted_data == Base64Data(encrypted)
             padded_data == [i \in DOMAIN encrypted_data |->
                               CipherByteInv(encrypted_data[i])]
         IN  IF Len(padded_data) % BlockBytes # 0 THEN Raised("ValueError")
             ELSE IF ~Pkcs7PadOk(padded_data) THEN Raised("ValueError")
             ELSE Pkcs7Unpad(padded_data)

\* a decrypt_connection_string without its try/except
decrypt_connection_string_unguarded(encrypted) ==
    IF encrypted = <<>> THEN NoneVal ELSE decrypt_try(encrypted)

\* decrypt_connection_string: None for an empty input, and every exception
\* of the try block becomes None
decrypt_connection_string(encrypted) ==
    IF encrypted = <<>> THEN NoneVal
    ELSE IF IsRaised(decrypt_try(encrypted)) THEN NoneVal
    ELSE decrypt_try(encrypted)

-----------------------------------------------------------------------------
(* Identifiers and timestamps as Python values and as text                 *)

HexChars == DigitChars \cup {"a","b","c","d","e","f"} \cup {"A","B","C","D","E","F"}

\* number of hexadecimal digits of a UUID (uuid.UUID: len(hex) != 32)
UuidHexLen == 32

\* str.replace(sub, '')
RECURSIVE RemoveAll(_, _)
RemoveAll(s, sub) ==
    IF Len(s) < Len(sub) \/ sub = <<>> THEN s
    ELSE IF SubSeq(s, 1, Len(sub)) = sub
         THEN RemoveAll(SubSeq(s, Len(sub) + 1, Len(s)), sub)
         ELSE <<s[1]>> \o RemoveAll(Tail(s), sub)

\* str.strip('{}')
RECURSIVE StripBraces(_)
StripBraces(s) ==
    IF s = <<>> THEN <<>>
    ELSE IF s[1] \in {"{", "}"} THEN StripBraces(Tail(s))
    ELSE IF s[Len(s)] \in {"{", "}"} THEN StripBraces(SubSeq(s, 1, Len(s) - 1))
    ELSE s

\* what uuid.UUID(text) reduces its argument to before reading it as hex
UuidDigits(text) ==
    RemoveAll(StripBraces(RemoveAll(RemoveAll(text, <<"u","r","n",":">>),
                                    <<"u","u","i","d",":">>)), <<"-">>)

\* what int(hex, 16) strips from both ends
IntSpace == {" ", "\n"}

RECURSIVE StripSpace(_)
StripSpace(s) ==
    IF s = <<>> THEN <<>>
    ELSE IF s[1] \in IntSpace THEN StripSpace(Tail(s))
    ELSE IF s[Len(s)] \in IntSpace THEN StripSpace(SubSeq(s, 1, Len(s) - 1))
    ELSE s

\* int(hex, 16) reads: optional space, an optional sign, an optional 0x
\* prefix (which may be followed by one underscore), then the digits
HexIntBody(hex) ==
    LET s1 == StripSpace(hex)
        s2 == IF s1 # <<>> /\ s1[1] = "+" THEN Tail(s1) ELSE s1
        prefixed == Len(s2) >= 2 /\ s2[1] = "0" /\ s2[2] \in {"x", "X"}
        s3 == IF prefixed THEN SubSeq(s2, 3, Len(s2)) ELSE s2
    IN  IF prefixed /\ s3 # <<>> /\ s3[1] = "_" THEN Tail(s3) ELSE s3

\* the digits int(hex, 16) accepts: hexadecimal digits, single underscores
\* between them
HexIntOk(body) ==
    /\ body # <<>>
    /\ body[1] # "_" /\ body[Len(body)] # "_"
    /\ \A i \in DOMAIN body : body[i] \in HexChars \cup {"_"}
    /\ \A i \in 1..(Len(body) - 1) : ~(body[i] = "_" /\ body[i + 1] = "_")

\* the value of accepted digits, written as 32 hexadecimal digits
HexIntValue(body) ==
    {[i \in 1..(UuidHexLen - Len(digits)) |-> "0"] \o digits :
        digits \in {Lower(RemoveAll(body, <<"_">>))}}

\* UUID(text): the value it returns, as a set that is empty when it raises
\* ValueError (len(hex) != 32, or int(hex, 16) fails)
UuidParse(text) ==
    UNION {HexIntValue(body) :
             body \in {b \in {HexIntBody(hex) :
                                 hex \in {h \in {UuidDigits(text)} : Len(h) = UuidHexLen}} :
                          HexIntOk(b)}}

\* UUID(text) does not raise ValueError
IsUuidLiteral(text) == UuidParse(text) # {}

\* the value of UUID(text) as its 32 digits
ParseUuid(text) == CHOOSE value \in UuidParse(text) : TRUE

\* a uuid4() that returns the same value every time
Uuid4Repeating(n) ==
    [i \in 1..UuidHexLen |->
        IF i = 13 THEN "4" ELSE IF i = 17 THEN "8"
        ELSE IF i = UuidHexLen THEN "1" ELSE "0"]

\* the n-th value uuid4() returns (version nibble 4, variant nibble 8)
Uuid4(n) ==
    [i \in 1..UuidHexLen |->
        IF i = 13 THEN "4" ELSE IF i = 17 THEN "8"
        ELSE IF i = UuidHexLen THEN DigitSeq[(n % 10) + 1]
        ELSE IF i = UuidHexLen - 1 THEN DigitSeq[((n \div 10) % 10) + 1]
        ELSE "0"]

\* str(uuid): 8-4-4-4-12
UuidStr(hex) ==
    SubSeq(hex, 1, 8) \o <<"-">> \o SubSeq(hex, 9, 12) \o <<"-">> \o
    SubSeq(hex, 13, 16) \o <<"-">> \o SubSeq(hex, 17, 20) \o <<"-">> \o
    SubSeq(hex, 21, 32)

\* datetime.isoformat() and its reading back; instants are clock ticks
IsoFormat(t) == IntToStr(t)
ParseIso(text) == StrToInt(text)

\* a Python value with its type
PyStr(text) == [pytype |-> "str", value |-> text]
PyUUID(hex) == [pytype |-> "UUID", value |-> hex]
PyDatetime(t) == [pytype |-> "datetime", value |-> t]

-----------------------------------------------------------------------------
(* The externally visible view of a row: databases.py, schemas/database.py  *)

\* a db_dict with the connection string as stored
DbDictPlain(database) ==
    [id |-> PyStr(UuidStr(database.id)),
     name |-> database.name,
     slug |-> database.slug,
     type |-> database.type,
     connection_string |-> database.connection_string,
     description |-> database.description,
     status |-> database.status,
     created_at |-> PyStr(IsoFormat(database.created_at)),
     updated_at |-> PyStr(IsoFormat(database.updated_at)),
     gver |-> database.gver]

\* db_dict = {...}: the connection string goes through the cipher
DbDict(database) ==
    [id |-> PyStr(UuidStr(database.id)),
     name |-> database.name,
     slug |-> database.slug,
     type |-> database.type,
     connection_string |-> encrypt_connection_string(database.connection_string),
     description |-> database.description,
     status |-> database.status,
     created_at |-> PyStr(IsoFormat(database.created_at)),
     updated_at |-> PyStr(IsoFormat(database.updated_at)),
     gver |-> database.gver]

\* DatabaseResponse(**d): id: UUID, created_at/updated_at: datetime are
\* parsed from text, or taken as they are when they already have the type
DatabaseResponse(d) ==
    [d EXCEPT
       !.id = IF d.id.pytype = "UUID" THEN d.id ELSE PyUUID(ParseUuid(d.id.value)),
       !.created_at = IF d.created_at.pytype = "datetime" THEN d.created_at
                      ELSE PyDatetime(ParseIso(d.created_at.value)),
       !.updated_at = IF d.updated_at.pytype = "datetime" THEN d.updated_at
                      ELSE PyDatetime(ParseIso(d.updated_at.value))]

\* what a json-mode dump would give: UUID and datetime as text
model_dump_json_mode(r) ==
    [r EXCEPT !.id = PyStr(UuidStr(r.id.value)),
              !.created_at = PyStr(IsoFormat(r.created_at.value)),
              !.updated_at = PyStr(IsoFormat(r.updated_at.value))]

\* BaseModel.model_dump(): python mode, field values stay Python objects
model_dump(r) == r

\* the view a handler builds from a row
ViewOf(database) == DatabaseResponse(DbDict(database))

-----------------------------------------------------------------------------
(* JSON: json.dumps / json.loads as used by app/core/cache.py              *)

\* types json.dumps encodes without a `default` hook
JsonNativeTypes == {"str"}

JsonNativeItem(d) ==
    /\ d.id.pytype \in JsonNativeTypes
    /\ d.created_at.pytype \in JsonNativeTypes
    /\ d.updated_at.pytype \in JsonNativeTypes

\* json.dumps(value) raises TypeError ("Object of type UUID is not JSON
\* serializable") unless every value is JSON-native
JsonDumpsOkItem(d) == JsonNativeItem(d)
JsonDumpsOkList(l) == \A i \in DOMAIN l : JsonNativeItem(l[i])

\* the serialized text, kept symbolic, and json.loads of it
JsonText(value) == [json |-> value]
json_loads(text) == text.json

-----------------------------------------------------------------------------
(* Cache Layer: app/core/cache.py                                          *)

\* settings.CACHE_TTL default, in seconds
CACHE_TTL == 300

\* f"databases:list:{skip}:{limit}"
cache_key_database_list(skip, limit) ==
    <<"databases:", "list:">> \o IntToStr(skip) \o <<":">> \o IntToStr(limit)

\* f"databases:item:{id_or_slug}"
cache_key_database(id_or_slug) == <<"databases:", "item:">> \o id_or_slug

\* the key the cache-debug endpoint writes, outside the registry namespace
DebugKey == <<"debug:", "test">>

\* a pattern that covers the list keys only
ListPattern == <<"databases:", "list:", "*">>

\* the pattern invalidate_database_cache passes: "databases:*"
DatabasePattern == <<"databases:", "*">>

\* Redis KEYS glob, for a pattern whose only wildcard is a trailing "*"
GlobMatch(pattern, key) ==
    LET n == Len(pattern) - 1
    IN  /\ pattern[Len(pattern)] = "*"
        /\ Len(key) >= n
        /\ SubSeq(key, 1, n) = SubSeq(pattern, 1, n)

\* what a handler gets for None
NoCached(log) == [raised |-> FALSE, hit |-> FALSE, value |-> <<>>, log |-> log]

\* a get_cache that lets the connection error through
get_cache_raising(key) ==
    IF ~redis_up THEN [raised |-> TRUE, hit |-> FALSE, value |-> <<>>, log |-> "ERR"]
    ELSE IF key \in DOMAIN cache
    THEN [raised |-> FALSE, hit |-> TRUE, value |-> json_loads(cache[key].value),
          log |-> "HIT"]
    ELSE NoCached("MISS")

\* get_cache(key): the value, or None when the key is absent or any
\* exception (connection, decoding) is caught; `log` is what it logs
get_cache(key) ==
    IF ~redis_up THEN NoCached("ERR")
    ELSE IF key \in DOMAIN cache
    THEN [raised |-> FALSE, hit |-> TRUE, value |-> json_loads(cache[key].value),
          log |-> "HIT"]
    ELSE NoCached("MISS")

\* keys of a function other than those in `gone`
Without(f, gone) == [k \in (DOMAIN f) \ gone |-> f[k]]

\* a function extended or overwritten at one key
With(f, k, v) == [x \in (DOMAIN f) \cup {k} |-> IF x = k THEN v ELSE f[x]]

\* the entries Redis still holds at time t: a key is dropped when the time
\* since its SETEX reaches its TTL
Unexpired(t) ==
    Without(cache, {k \in DOMAIN cache :
                      cache[k].ttl > 0 /\ cache[k].at + cache[k].ttl <= t})

\* a set_cache that stores the value under another key than the one asked
set_cache_other_key(key, value, dumps_ok) ==
    IF redis_up /\ dumps_ok
    THEN [raised |-> FALSE, ok |-> TRUE,
          cache |-> With(cache, key \o <<":">>,
                         [value |-> JsonText(value), ttl |-> CACHE_TTL, at |-> now])]
    ELSE [raised |-> FALSE, ok |-> FALSE, cache |-> cache]

\* a set_cache that uses SET instead of SETEX: the key gets no expiry
\* (written as a TTL of 0)
set_cache_persistent(key, value, dumps_ok) ==
    IF redis_up /\ dumps_ok
    THEN [raised |-> FALSE, ok |-> TRUE,
          cache |-> With(cache, key, [value |-> JsonText(value), ttl |-> 0,
                                      at |-> now])]
    ELSE [raised |-> FALSE, ok |-> FALSE, cache |-> cache]

\* set_cache(key, value): get_redis, json.dumps, SETEX with the TTL; every
\* exception is caught and gives False.  dumps_ok says whether json.dumps
\* accepts the value.  An entry is the serialized value, the TTL it was
\* stored with and the time of the SETEX (Redis keeps their sum, the
\* expiry time).
set_cache(key, value, dumps_ok) ==
    IF redis_up /\ dumps_ok
    THEN [raised |-> FALSE, ok |-> TRUE,
          cache |-> With(cache, key, [value |-> JsonText(value), ttl |-> CACHE_TTL,
                                      at |-> now])]
    ELSE [raised |-> FALSE, ok |-> FALSE, cache |-> cache]

\* a delete_pattern that reports success and deletes nothing
delete_pattern_keeps(pattern) == [raised |-> FALSE, ok |-> redis_up, cache |-> cache]

\* delete_pattern(pattern): KEYS then DEL of what matched; every exception
\* is caught and gives False
delete_pattern(pattern) ==
    IF redis_up
    THEN [raised |-> FALSE, ok |-> TRUE,
          cache |-> Without(cache, {k \in DOMAIN cache : GlobMatch(pattern, k)})]
    ELSE [raised |-> FALSE, ok |-> FALSE, cache |-> cache]

\* invalidate_database_cache()
invalidate_database_cache == delete_pattern(DatabasePattern)

\* get_redis(): the global is assigned before the ping, so it stays set
\* even when the first ping fails
get_redis == "client"

\* `if cached:` on a list and on a dict: None and [] are falsy
TruthyList(cached) == cached.hit /\ Len(cached.value) > 0
TruthyItem(cached) == cached.hit

-----------------------------------------------------------------------------
(* Storage: the "databases" table, app/models/database.py                  *)

\* db.query(Database).filter(Database.slug == slug).first()
RowsBySlug(slug) == {r \in store : r.slug = slug}

\* db.query(Database).filter(Database.id == database_id).first()
RowsById(id) == {r \in store : r.id = id}

\* a lookup that tries the slug when the id finds nothing
get_database_by_id_then_slug(id_or_slug) ==
    IF IsUuidLiteral(id_or_slug) /\ RowsById(ParseUuid(id_or_slug)) # {}
    THEN RowsById(ParseUuid(id_or_slug))
    ELSE RowsBySlug(id_or_slug)

\* get_database_by_id_or_slug: the rows the chosen branch finds (at most
\* one); empty means HTTP 404
get_database_by_id_or_slug(id_or_slug) ==
    IF IsUuidLiteral(id_or_slug) THEN RowsById(ParseUuid(id_or_slug))
    ELSE RowsBySlug(id_or_slug)

\* all orders a query without ORDER BY may return the rows in
Orders(rows) ==
    {f \in [1..Cardinality(rows) -> rows] :
        \A i, j \in 1..Cardinality(rows) : i # j => f[i] # f[j]}

\* .offset(skip).limit(limit) of a row sequence
OffsetLimit(seq, skip, limit) ==
    SubSeq(seq, skip + 1, IF skip + limit < Len(seq) THEN skip + limit ELSE Len(seq))

\* db.query(Database).offset(skip).limit(limit).all(): no ORDER BY, so the
\* order is whatever the server produces
ListQueryResults(skip, limit) ==
    {OffsetLimit(f, skip, limit) : f \in Orders(store)}

\* a slug column without the unique index
InsertNeverViolates(slug) == FALSE

\* slug has unique=True: an INSERT of a slug already present is rejected
InsertViolatesUnique(slug) == \E r \in store : r.slug = slug

\* nullable=False columns
NotNullColumns == {"name", "slug", "type", "connection_string", "status"}

-----------------------------------------------------------------------------
(* Requests, handler locals and responses                                  *)

\* the clients: the specifications below name them (client 1 reads, client 2
\* writes in RaceSpec; client 1 alone in the sequential ones)
Clients == {1, 2}

Active == <<"active">>
Inactive == <<"inactive">>

MutatingOps == {"create", "update", "delete"}
ReadOps == {"list", "item"}

FirstPc(op) ==
    CASE op = "list" -> "list_get"
      [] op = "item" -> "item_get"
      [] op = "create" -> "create_slug"
      [] op = "update" -> "update_resolve"
      [] op = "delete" -> "delete_resolve"
      [] op = "backup" -> "backup_gen"
      [] op = "download" -> "download_gen"
      [] op = "ping" -> "ping_engine"

\* a request as the transport layer hands it to a handler
Request(op, id_or_slug, skip, limit, payload) ==
    [op |-> op, id_or_slug |-> id_or_slug, skip |-> skip, limit |-> limit,
     payload |-> payload]

\* DatabaseCreate with its defaults
CreatePayload(name, type, connection_string, description, status) ==
    [name |-> name, type |-> type, connection_string |-> connection_string,
     description |-> description, status |-> status]

ghost_floor(h, id) == IF id \in DOMAIN h.floor THEN h.floor[id] ELSE 0

IdleCtx ==
    [op |-> "none", id_or_slug |-> <<>>, skip |-> 0, limit |-> 0, payload |-> <<>>,
     cache_key |-> <<>>, result |-> <<>>, database |-> <<>>, script |-> <<>>,
     base_slug |-> <<>>, final_slug |-> <<>>, counter |-> 1, txn_now |-> 0,
     g_layer |-> "none", g_err |-> FALSE, g_inval |-> "none", g_src |-> <<>>,
     g_floor |-> <<>>, g_start |-> 0, g_lost |-> FALSE, g_ver |-> 0, g_raced |-> FALSE,
     g_gone |-> {}, g_commit |-> "none", elapsed |-> 0, g_fail |-> "none",
     g_seen |-> 0]

\* the locals of a handler when it is entered; the transaction the handler's
\* session opens reads the server clock once (now() is the transaction's
\* start time)
NewCtx(r, t) ==
    [IdleCtx EXCEPT
       !.op = r.op, !.id_or_slug = r.id_or_slug, !.skip = r.skip, !.limit = r.limit,
       !.payload = r.payload,
       !.cache_key = IF r.op = "list" THEN cache_key_database_list(r.skip, r.limit)
                     ELSE IF r.op = "item" THEN cache_key_database(r.id_or_slug)
                     ELSE <<>>,
       !.base_slug = IF r.op = "create" THEN generate_slug(r.payload.name) ELSE <<>>,
       !.final_slug = IF r.op = "create" THEN generate_slug(r.payload.name) ELSE <<>>,
       !.txn_now = t,
       !.g_floor = hist.floor, !.g_start = Len(hist.log), !.g_gone = hist.deleted]

\* a finished request: what the client sees (op, outcome, code, header,
\* body) and, as ghost fields, how it was produced
Response(c, outcome, code, header, body) ==
    [op |-> c.op, id_or_slug |-> c.id_or_slug, cache_key |-> c.cache_key,
     outcome |-> outcome, code |-> code, header |-> header, body |-> body,
     g_layer |-> c.g_layer, g_err |-> c.g_err, g_inval |-> c.g_inval,
     g_src |-> c.g_src, g_floor |-> c.g_floor, g_start |-> c.g_start,
     g_lost |-> c.g_lost, g_raced |-> c.g_raced, g_gone |-> c.g_gone,
     g_commit |-> c.g_commit, g_fail |-> c.g_fail,
     g_storage |-> (c.g_src # <<>>) \/ outcome = "NotFound",
     g_name |-> IF c.op = "create" THEN c.payload.name ELSE <<>>]

NoResponse == Response(IdleCtx, "none", 0, "none", <<>>)

\* what the log keeps of a response
Summary(p, r) ==
    [client |-> p, op |-> r.op, cache_key |-> r.cache_key, outcome |-> r.outcome,
     header |-> r.header, g_layer |-> r.g_layer, g_err |-> r.g_err,
     g_inval |-> r.g_inval, g_storage |-> r.g_storage, g_start |-> r.g_start,
     g_name |-> r.g_name,
     slug |-> IF r.op = "create" /\ r.outcome = "ok" THEN r.body.slug ELSE <<>>]

Finish(p, r, h) ==
    /\ pc' = [pc EXCEPT ![p] = "idle"]
    /\ ctx' = [ctx EXCEPT ![p] = IdleCtx]
    /\ resp' = [resp EXCEPT ![p] = r]
    /\ hist' = [h EXCEPT !.log = Append(@, Summary(p, r))]

Goto(p, label, c) ==
    /\ pc' = [pc EXCEPT ![p] = label]
    /\ ctx' = [ctx EXCEPT ![p] = c]
    /\ resp' = resp

\* an exception that leaves a cache call reaches the framework: HTTP 500
CacheFailure(p, c) == Finish(p, Response(c, "CacheFailure", 500, "none", <<>>), hist)

\* a handler that goes on to its invalidation after db.commit() failed
StorageFailureSwallowed(p, c) ==
    /\ Goto(p, IF c.op = "create" THEN "create_inval" ELSE "update_inval", c)
    /\ hist' = hist

\* an exception db.commit() raises is not caught: it ends the handler and
\* reaches the framework, HTTP 500
StorageFailure(p, c) == Finish(p, Response(c, "StorageFailure", 500, "none", <<>>), hist)

StartWith(p, menu, bound) ==
    /\ pc[p] = "idle"
    /\ nreq < bound
    /\ \E r \in menu :
         /\ pc' = [pc EXCEPT ![p] = FirstPc(r.op)]
         /\ now' = IF r.op \in MutatingOps THEN now + 1 ELSE now
         /\ ctx' = [ctx EXCEPT ![p] = NewCtx(r, now')]
    /\ cache' = Unexpired(now')
    /\ nreq' = nreq + 1
    /\ UNCHANGED <<store, redis_client, redis_up, next_id, resp, hist, target, fn>>

-----------------------------------------------------------------------------
(* get_databases: databases.py 31-73                                       *)

ListGet(p) ==
    /\ pc[p] = "list_get"
    /\ LET cached == get_cache(ctx[p].cache_key)
           c == [ctx[p] EXCEPT !.g_layer = cached.log, !.g_err = @ \/ cached.log = "ERR"]
       IN  IF cached.raised THEN CacheFailure(p, c)
           ELSE IF TruthyList(cached)
           THEN Finish(p, Response(c, "ok", 200, "HIT",
                        [i \in DOMAIN cached.value |-> DatabaseResponse(cached.value[i])]),
                       hist)
           ELSE Goto(p, "list_query", c) /\ hist' = hist
    /\ redis_client' = get_redis
    /\ UNCHANGED <<store, cache, redis_up, now, next_id, nreq, target, fn>>

ListQuery(p) ==
    /\ pc[p] = "list_query"
    /\ \E databases \in ListQueryResults(ctx[p].skip, ctx[p].limit) :
         Goto(p, "list_set",
              [ctx[p] EXCEPT !.result = [i \in DOMAIN databases |-> ViewOf(databases[i])],
                             !.g_src = <<databases>>])
    /\ UNCHANGED <<store, cache, redis_client, redis_up, now, next_id, hist, nreq, target,
                   fn>>

ListSet(p) ==
    /\ pc[p] = "list_set"
    /\ LET dumped == [i \in DOMAIN ctx[p].result |-> model_dump(ctx[p].result[i])]
           sc == set_cache(ctx[p].cache_key, dumped, JsonDumpsOkList(dumped))
           c == [ctx[p] EXCEPT !.g_err = @ \/ ~sc.ok]
       IN  /\ cache' = sc.cache
           /\ IF sc.raised THEN CacheFailure(p, c)
              ELSE Finish(p, Response(c, "ok", 200, "MISS", c.result), hist)
    /\ redis_client' = get_redis
    /\ UNCHANGED <<store, redis_up, now, next_id, nreq, target, fn>>

-----------------------------------------------------------------------------
(* get_database: databases.py 200-239                                      *)

ItemGet(p) ==
    /\ pc[p] = "item_get"
    /\ LET cached == get_cache(ctx[p].cache_key)
           c == [ctx[p] EXCEPT !.g_layer = cached.log, !.g_err = @ \/ cached.log = "ERR"]
       IN  IF cached.raised THEN CacheFailure(p, c)
           ELSE IF TruthyItem(cached)
           THEN Finish(p, Response(c, "ok", 200, "HIT", DatabaseResponse(cached.value)),
                       hist)
           ELSE Goto(p, "item_query", c) /\ hist' = hist
    /\ redis_client' = get_redis
    /\ UNCHANGED <<store, cache, redis_up, now, next_id, nreq, target, fn>>

\* an item read that remembers a missing record: it stores null under the
\* key before it answers 404
ItemQueryNegativeCaching(p) ==
    /\ pc[p] = "item_query"
    /\ LET rows == get_database_by_id_or_slug(ctx[p].id_or_slug)
       IN  IF rows = {}
           THEN /\ Finish(p, Response(ctx[p], "NotFound", 404, "none", <<>>), hist)
                /\ cache' = set_cache(ctx[p].cache_key, NoneVal, TRUE).cache
           ELSE LET database == CHOOSE r \in rows : TRUE
                IN  /\ Goto(p, "item_set",
                            [ctx[p] EXCEPT !.result = ViewOf(database),
                                           !.g_src = <<<<database>>>>])
                    /\ hist' = hist
                    /\ cache' = cache
    /\ UNCHANGED <<store, redis_client, redis_up, now, next_id, nreq, target, fn>>

ItemQuery(p) ==
    /\ pc[p] = "item_query"
    /\ LET rows == get_database_by_id_or_slug(ctx[p].id_or_slug)
       IN  IF rows = {}
           THEN Finish(p, Response(ctx[p], "NotFound", 404, "none", <<>>), hist)
           ELSE LET database == CHOOSE r \in rows : TRUE
                IN  /\ Goto(p, "item_set",
                            [ctx[p] EXCEPT !.result = ViewOf(database),
                                           !.g_src = <<<<database>>>>])
                    /\ hist' = hist
    /\ UNCHANGED <<store, cache, redis_client, redis_up, now, next_id, nreq, target,
                   fn>>

ItemSet(p) ==
    /\ pc[p] = "item_set"
    /\ LET dumped == model_dump(ctx[p].result)
           sc == set_cache(ctx[p].cache_key, dumped, JsonDumpsOkItem(dumped))
           c == [ctx[p] EXCEPT !.g_err = @ \/ ~sc.ok]
       IN  /\ cache' = sc.cache
           /\ IF sc.raised THEN CacheFailure(p, c)
              ELSE Finish(p, Response(c, "ok", 200, "MISS", c.result), hist)
    /\ redis_client' = get_redis
    /\ UNCHANGED <<store, redis_up, now, next_id, nreq, target, fn>>

-----------------------------------------------------------------------------
(* create_database: databases.py 242-284                                   *)

\* one evaluation of the loop condition of generate_unique_slug (slug.py
\* 30-32): each is a query of its own against the committed table.  The
\* ghost g_seen keeps how many rows had been inserted when the slug was
\* found free.
CreateSlugQuery(p) ==
    /\ pc[p] = "create_slug"
    /\ IF SlugExists(store, ctx[p].final_slug)
       THEN Goto(p, "create_slug",
                 [ctx[p] EXCEPT !.final_slug = SlugWithCounter(ctx[p].base_slug,
                                                               ctx[p].counter),
                                !.counter = @ + 1])
       ELSE Goto(p, "create_check", [ctx[p] EXCEPT !.g_seen = next_id])
    /\ UNCHANGED <<store, cache, redis_client, redis_up, now, next_id, hist, nreq, target,
                   fn>>

\* the "double-check" query and the 409 it raises
CreateCheck(p) ==
    /\ pc[p] = "create_check"
    /\ IF RowsBySlug(ctx[p].final_slug) # {}
       THEN Finish(p, Response(ctx[p], "Conflict", 409, "none", <<>>), hist)
       ELSE Goto(p, "create_commit", ctx[p]) /\ hist' = hist
    /\ UNCHANGED <<store, cache, redis_client, redis_up, now, next_id, nreq, target,
                   fn>>

\* the row Database(**database_data) becomes at INSERT: id from uuid4,
\* created_at / updated_at from the server default now()
NewRow(data, slug, n, t) ==
    [id |-> Uuid4(n), name |-> data.name, slug |-> slug, type |-> data.type,
     connection_string |-> data.connection_string, description |-> data.description,
     status |-> data.status, created_at |-> t, updated_at |-> t, gver |-> 0]

\* db.add / db.commit / db.refresh: the INSERT is rejected by the unique
\* index when the slug was committed by someone else in the meantime; the
\* IntegrityError is not caught, so the request ends as HTTP 500
CreateCommit(p) ==
    /\ pc[p] = "create_commit"
    /\ IF InsertViolatesUnique(ctx[p].final_slug)
       THEN /\ StorageFailure(p, [ctx[p] EXCEPT !.g_lost = TRUE, !.g_commit = "failed"])
            /\ UNCHANGED <<store, next_id>>
       ELSE LET database == NewRow(ctx[p].payload, ctx[p].final_slug, next_id + 1,
                                   ctx[p].txn_now)
            IN  /\ store' = store \cup {database}
                /\ next_id' = next_id + 1
                /\ Goto(p, "create_inval", [ctx[p] EXCEPT !.database = database,
                                                          !.g_src = <<<<database>>>>,
                                                          !.g_commit = "ok"])
                /\ hist' = [hist EXCEPT
                              !.secrets = @ \cup {database.connection_string},
                              !.name0 = With(@, database.id, database.name)]
    /\ UNCHANGED <<cache, redis_client, redis_up, now, nreq, target, fn>>

\* await invalidate_database_cache(), then the 201 response
CreateInval(p) ==
    /\ pc[p] = "create_inval"
    /\ LET inv == invalidate_database_cache
           c == [ctx[p] EXCEPT !.g_inval = IF inv.ok THEN "ok" ELSE "failed",
                               !.g_err = @ \/ ~inv.ok]
       IN  /\ cache' = inv.cache
           /\ IF inv.raised THEN CacheFailure(p, c)
              ELSE Finish(p, Response(c, "ok", 201, "none", ViewOf(c.database)), hist)
    /\ redis_client' = get_redis
    /\ UNCHANGED <<store, redis_up, now, next_id, nreq, target, fn>>

-----------------------------------------------------------------------------
(* update_database: databases.py 287-320                                   *)

UpdateResolve(p) ==
    /\ pc[p] = "update_resolve"
    /\ LET rows == get_database_by_id_or_slug(ctx[p].id_or_slug)
       IN  IF rows = {}
           THEN Finish(p, Response(ctx[p], "NotFound", 404, "none", <<>>), hist)
           ELSE Goto(p, "update_commit",
                     [ctx[p] EXCEPT !.database = CHOOSE r \in rows : TRUE])
                /\ hist' = hist
    /\ UNCHANGED <<store, cache, redis_client, redis_up, now, next_id, nreq, target,
                   fn>>

\* the fields of DatabaseUpdate (schemas/database.py 20-25)
UpdateFields == {"name", "type", "connection_string", "description", "status"}

\* a DatabaseUpdate that keeps every key of the request body
model_dump_extra_allowed(body) == body

\* database_in.model_dump(exclude_unset=True): the declared fields the
\* request body sets; the model ignores any other key of the body
model_dump_exclude_unset(body) == [f \in (DOMAIN body) \cap UpdateFields |-> body[f]]

\* update_data = model_dump(exclude_unset=True); setattr for each item.
\* The session writes only attributes whose value differs from the one it
\* loaded.
ChangedFields(database, update_data) ==
    {f \in DOMAIN update_data : update_data[f] # database[f]}

\* the row after UPDATE ... SET <changed columns>, updated_at = now()
UpdatedRow(cur, update_data, changed, t) ==
    [f \in DOMAIN cur |->
        IF f \in changed THEN update_data[f]
        ELSE IF f = "updated_at" THEN t
        ELSE IF f = "gver" THEN cur.gver + 1
        ELSE cur[f]]

\* db.commit() and db.refresh(database).  With nothing changed no UPDATE is
\* emitted (so onupdate does not fire) and only the refresh touches the
\* table.  A row deleted in the meantime makes the UPDATE match no row
\* (StaleDataError) or the refresh fail; NULL in a nullable=False column is
\* an IntegrityError.  None of these is caught: HTTP 500.
UpdateCommit(p) ==
    /\ pc[p] = "update_commit"
    /\ LET database == ctx[p].database
           update_data == model_dump_exclude_unset(ctx[p].payload)
           changed == ChangedFields(database, update_data)
           cur == RowsById(database.id)
           failure == \/ cur = {}
                      \/ \E f \in changed \cap NotNullColumns : update_data[f] = NoneVal
       IN  IF failure
           THEN /\ StorageFailure(p, [ctx[p] EXCEPT !.g_raced = (cur = {}),
                                                    !.g_commit = "failed"])
                /\ store' = store
           ELSE LET old == CHOOSE r \in cur : TRUE
                    new == IF changed = {} THEN old
                           ELSE UpdatedRow(old, update_data, changed, ctx[p].txn_now)
                IN  /\ store' = (store \ {old}) \cup {new}
                    /\ Goto(p, "update_inval",
                            [ctx[p] EXCEPT !.database = new, !.g_ver = new.gver,
                                           !.g_src = <<<<new>>>>, !.g_commit = "ok"])
                    /\ hist' = [hist EXCEPT !.secrets = @ \cup {new.connection_string}]
    /\ UNCHANGED <<cache, redis_client, redis_up, now, next_id, nreq, target, fn>>

UpdateInval(p) ==
    /\ pc[p] = "update_inval"
    /\ LET inv == invalidate_database_cache
           c == [ctx[p] EXCEPT !.g_inval = IF inv.ok THEN "ok" ELSE "failed",
                               !.g_err = @ \/ ~inv.ok]
           id == c.database.id
           h == [hist EXCEPT !.floor =
                   With(@, id, IF ghost_floor(hist, id) > c.g_ver
                               THEN ghost_floor(hist, id) ELSE c.g_ver)]
       IN  /\ cache' = inv.cache
           /\ IF inv.raised THEN CacheFailure(p, c)
              ELSE Finish(p, Response(c, "ok", 200, "none", ViewOf(c.database)), h)
    /\ redis_client' = get_redis
    /\ UNCHANGED <<store, redis_up, now, next_id, nreq, target, fn>>

-----------------------------------------------------------------------------
(* delete_database: databases.py 323-335                                   *)

\* a delete that invalidates the cache before it reports a missing record
DeleteResolveInvalidating(p) ==
    /\ pc[p] = "delete_resolve"
    /\ LET rows == get_database_by_id_or_slug(ctx[p].id_or_slug)
       IN  IF rows = {}
           THEN /\ Finish(p, Response(ctx[p], "NotFound", 404, "none", <<>>), hist)
                /\ cache' = invalidate_database_cache.cache
           ELSE /\ Goto(p, "delete_commit",
                        [ctx[p] EXCEPT !.database = CHOOSE r \in rows : TRUE])
                /\ hist' = hist
                /\ cache' = cache
    /\ UNCHANGED <<store, redis_client, redis_up, now, next_id, nreq, target, fn>>

DeleteResolve(p) ==
    /\ pc[p] = "delete_resolve"
    /\ LET rows == get_database_by_id_or_slug(ctx[p].id_or_slug)
       IN  IF rows = {}
           THEN Finish(p, Response(ctx[p], "NotFound", 404, "none", <<>>), hist)
           ELSE Goto(p, "delete_commit",
                     [ctx[p] EXCEPT !.database = CHOOSE r \in rows : TRUE])
                /\ hist' = hist
    /\ UNCHANGED <<store, cache, redis_client, redis_up, now, next_id, nreq, target,
                   fn>>

\* db.delete / db.commit: DELETE ... WHERE id = ?; a row that is already
\* gone only draws a warning from the session
DeleteCommit(p) ==
    /\ pc[p] = "delete_commit"
    /\ store' = store \ RowsById(ctx[p].database.id)
    /\ hist' = [hist EXCEPT !.deleted = @ \cup {ctx[p].database.id}]
    /\ Goto(p, "delete_inval", [ctx[p] EXCEPT !.g_commit = "ok"])
    /\ UNCHANGED <<cache, redis_client, redis_up, now, next_id, nreq, target, fn>>

DeleteInval(p) ==
    /\ pc[p] = "delete_inval"
    /\ LET inv == invalidate_database_cache
           c == [ctx[p] EXCEPT !.g_inval = IF inv.ok THEN "ok" ELSE "failed",
                               !.g_err = @ \/ ~inv.ok]
       IN  /\ cache' = inv.cache
           /\ IF inv.raised THEN CacheFailure(p, c)
              ELSE Finish(p, Response(c, "ok", 204, "none", <<>>), hist)
    /\ redis_client' = get_redis
    /\ UNCHANGED <<store, redis_up, now, next_id, nreq, target, fn>>

-----------------------------------------------------------------------------
(* test_database_connection: databases.py 338-386                          *)

\* the texts the handler looks for in str(e).lower()
WordTimeout == <<"t", "i", "m", "e", "o", "u", "t">>
WordAuthentication == <<"a", "u", "t", "h", "e", "n", "t", "i", "c", "a", "t", "i", "o", "n">>
WordPassword == <<"p", "a", "s", "s", "w", "o", "r", "d">>
WordHost == <<"h", "o", "s", "t">>
WordRefused == <<"c", "o", "n", "n", "e", "c", "t", "i", "o", "n", " ", "r", "e", "f", "u", "s", "e", "d">>

\* messages of the exceptions connect() and execute() raise here
ErrTimeout == <<"T", "i", "m", "e", "o", "u", "t", " ", "e", "x", "p", "i", "r", "e", "d">>
ErrPassword == <<"p", "a", "s", "s", "w", "o", "r", "d", " ", "a", "u", "t", "h", "e", "n", "t", "i", "c", "a", "t", "i", "o", "n", " ", "f", "a", "i", "l", "e", "d">>
ErrNoHost == <<"c", "o", "u", "l", "d", " ", "n", "o", "t", " ", "t", "r", "a", "n", "s", "l", "a", "t", "e", " ", "h", "o", "s", "t", " ", "n", "a", "m", "e">>
ErrRefused == <<"C", "o", "n", "n", "e", "c", "t", "i", "o", "n", " ", "r", "e", "f", "u", "s", "e", "d">>
ErrOther == <<"b", "o", "o", "m">>
ConnectErrors == {ErrTimeout, ErrPassword, ErrNoHost, ErrRefused, ErrOther}
QueryErrors == {ErrTimeout, ErrOther}

\* create_engine parses the URL: "dialect://..." or ArgumentError, whose
\* message quotes the string
UrlSeparator == <<":", "/", "/">>
UrlParses(connection_string) == Contains(connection_string, UrlSeparator)
ArgumentError(connection_string) == <<"C", "o", "u", "l", "d", " ", "n", "o", "t", " ", "p", "a", "r", "s", "e", " ", "U", "R", "L", " ", "f", "r", "o", "m", " ", "s", "t", "r", "i", "n", "g", " ">> \o connection_string

\* the messages the handler substitutes
\* "Connection timeout (10s exceeded)"
MsgTimeout == <<"C", "o", "n", "n", "e", "c", "t", "i", "o", "n", " ", "t", "i", "m", "e", "o", "u", "t", " ", "(", "1", "0", "s", " ", "e", "x", "c", "e", "e", "d", "e", "d", ")">>
\* "Authentication failed - check credentials"
MsgAuthentication == <<"A", "u", "t", "h", "e", "n", "t", "i", "c", "a", "t", "i", "o", "n", " ", "f", "a", "i", "l", "e", "d", " ", "-", " ", "c", "h", "e", "c", "k", " ", "c", "r", "e", "d", "e", "n", "t", "i", "a", "l", "s">>
\* "Cannot reach database host - check host and port"
MsgHost == <<"C", "a", "n", "n", "o", "t", " ", "r", "e", "a", "c", "h", " ", "d", "a", "t", "a", "b", "a", "s", "e", " ", "h", "o", "s", "t", " ", "-", " ", "c", "h", "e", "c", "k", " ", "h", "o", "s", "t", " ", "a", "n", "d", " ", "p", "o", "r", "t">>

\* a "clean up" that looks for the credentials words first
CleanMessageAuthFirst(error_message) ==
    LET lowered == Lower(error_message)
    IN  IF Contains(lowered, WordAuthentication) \/ Contains(lowered, WordPassword)
        THEN MsgAuthentication
        ELSE IF Contains(lowered, WordTimeout)
        THEN MsgTimeout
        ELSE IF Contains(lowered, WordHost) \/ Contains(lowered, WordRefused)
        THEN MsgHost
        ELSE error_message

\* the "clean up" of the error message
CleanMessage(error_message) ==
    LET lowered == Lower(error_message)
    IN  IF Contains(lowered, WordTimeout)
        THEN MsgTimeout
        ELSE IF Contains(lowered, WordAuthentication) \/ Contains(lowered, WordPassword)
        THEN MsgAuthentication
        ELSE IF Contains(lowered, WordHost) \/ Contains(lowered, WordRefused)
        THEN MsgHost
        ELSE error_message

\* DatabaseTestConnectionResponse
DatabaseTestConnectionResponse(success, message, latency_ms) ==
    [success |-> success, message |-> message, latency_ms |-> latency_ms]

\* an exception that is not caught reaches the framework: HTTP 500
PingUncaught(p, c, error_message) ==
    Finish(p, Response(c, "Unhandled", 500, "none", <<>>), hist)

\* except Exception as e: the failure becomes a result
PingExcept(p, c, error_message) ==
    Finish(p, Response(c, "ok", 200, "none",
                       DatabaseTestConnectionResponse(
                           FALSE,
                           <<"Connection failed: ">> \o CleanMessage(error_message),
                           c.elapsed)),
           hist)

\* longest time one step of the probe is let to take, in clock ticks
MaxStepMs == 1

\* the handler's locals after a step that took d ticks
Elapse(c, d, failed) == [c EXCEPT !.elapsed = @ + d, !.g_fail = failed]

\* start_time = time.time(); create_engine(...)
PingEngine(p) ==
    /\ pc[p] = "ping_engine"
    /\ \E d \in 0..MaxStepMs :
         IF UrlParses(ctx[p].payload.connection_string)
         THEN Goto(p, "ping_connect", Elapse(ctx[p], d, "none")) /\ hist' = hist
         ELSE PingExcept(p, Elapse(ctx[p], d, "engine"),
                         ArgumentError(ctx[p].payload.connection_string))
    /\ UNCHANGED <<store, cache, redis_client, redis_up, now, next_id, nreq, target, fn>>

\* with engine.connect() as connection: the server may not answer in time,
\* refuse the credentials, be unreachable, ...
PingConnect(p) ==
    /\ pc[p] = "ping_connect"
    /\ \E d \in 0..MaxStepMs, e \in ConnectErrors \cup {<<>>} :
         IF e = <<>>
         THEN Goto(p, "ping_query", Elapse(ctx[p], d, "none")) /\ hist' = hist
         ELSE PingExcept(p, Elapse(ctx[p], d, "connect"), e)
    /\ UNCHANGED <<store, cache, redis_client, redis_up, now, next_id, nreq, target, fn>>

\* connection.execute(text("SELECT 1")) and the success result
PingQuery(p) ==
    /\ pc[p] = "ping_query"
    /\ \E d \in 0..MaxStepMs, e \in QueryErrors \cup {<<>>} :
         IF e = <<>>
         THEN LET c == Elapse(ctx[p], d, "none")
              IN  Finish(p, Response(c, "ok", 200, "none",
                                     DatabaseTestConnectionResponse(
                                         TRUE,
                                         <<"Connection successful to ">> \o
                                             c.payload.type \o <<" database">>,
                                         c.elapsed)),
                         hist)
         ELSE PingExcept(p, Elapse(ctx[p], d, "query"), e)
    /\ UNCHANGED <<store, cache, redis_client, redis_up, now, next_id, nreq, target, fn>>

-----------------------------------------------------------------------------
(* Backup Generator: app/utils/backup.py                                   *)

\* value.replace("'", "''")
RECURSIVE DoubleQuotes(_)
DoubleQuotes(value) ==
    IF value = <<>> THEN <<>>
    ELSE IF value[1] = "'" THEN <<"'", "'">> \o DoubleQuotes(Tail(value))
    ELSE <<value[1]>> \o DoubleQuotes(Tail(value))

\* escape_sql_string
escape_sql_string(value) ==
    IF value = NoneVal THEN <<"NULL">>
    ELSE <<"'">> \o DoubleQuotes(value) \o <<"'">>

\* f"'{x}'"
Quoted(text) == <<"'">> \o text \o <<"'">>

\* "\n".join(lines), by halves
RECURSIVE JoinLines(_)
JoinLines(lines) ==
    IF lines = <<>> THEN <<>>
    ELSE IF Len(lines) = 1 THEN lines[1]
    ELSE LET h == Len(lines) \div 2
         IN  JoinLines(SubSeq(lines, 1, h)) \o <<"\n">>
             \o JoinLines(SubSeq(lines, h + 1, Len(lines)))

\* created_at.strftime('%Y-%m-%d %H:%M:%S')
Strftime(t) == IntToStr(t)

RuleLine == <<"-- =====">>
Indent == "    "

BackupHeader(databases) ==
    << RuleLine,
       <<"-- Database Connections Backup">>,
       <<"-- Generated: ">> \o Strftime(databases[1].created_at),
       <<"-- Total records: ">> \o IntToStr(Len(databases)),
       RuleLine,
       <<>>,
       <<"-- Ensure database_status enum exists">>,
       <<"DO ", "$$", " BEGIN">>,
       <<Indent, "CREATE TYPE database_status AS ENUM (", "'", "active", "'", ", ",
         "'", "inactive", "'", ")", ";">>,
       <<"EXCEPTION">>,
       <<Indent, "WHEN duplicate_object THEN null", ";">>,
       <<"END ", "$$", ";">>,
       <<>> >>

\* the lines sql_lines.extend([...]) adds for one record
BackupRecordLines(database) ==
    LET id_val == Quoted(UuidStr(database.id))
        name_val == escape_sql_string(database.name)
        slug_val == escape_sql_string(database.slug)
        type_val == escape_sql_string(database.type)
        conn_str_val == escape_sql_string(database.connection_string)
        desc_val == escape_sql_string(database.description)
        status_val == Quoted(database.status)
        created_val == Quoted(IsoFormat(database.created_at))
        updated_val == Quoted(IsoFormat(database.updated_at))
    IN  << <<"-- Backup record: ">> \o database.name \o <<" (">> \o database.slug
              \o <<")">>,
           <<"INSERT INTO databases (">>,
           <<Indent, "id, name, slug, type, connection_string, description, status, created_at, updated_at">>,
           <<") VALUES (">>,
           <<Indent>> \o id_val \o <<"::uuid,">>,
           <<Indent>> \o name_val \o <<",">>,
           <<Indent>> \o slug_val \o <<",">>,
           <<Indent>> \o type_val \o <<",">>,
           <<Indent>> \o conn_str_val \o <<",">>,
           <<Indent>> \o desc_val \o <<",">>,
           <<Indent>> \o status_val \o <<"::database_status,">>,
           <<Indent>> \o created_val \o <<"::timestamp with time zone,">>,
           <<Indent>> \o updated_val \o <<"::timestamp with time zone">>,
           <<")">>,
           <<"ON CONFLICT (id) DO UPDATE SET">>,
           <<Indent, "name = ">> \o name_val \o <<",">>,
           <<Indent, "slug = ">> \o slug_val \o <<",">>,
           <<Indent, "type = ">> \o type_val \o <<",">>,
           <<Indent, "connection_string = ">> \o conn_str_val \o <<",">>,
           <<Indent, "description = ">> \o desc_val \o <<",">>,
           <<Indent, "status = ">> \o status_val \o <<"::database_status,">>,
           <<Indent, "updated_at = ">> \o updated_val
              \o <<"::timestamp with time zone", ";">>,
           <<>> >>

BackupFooter(databases) ==
    << RuleLine,
       <<"-- Backup completed successfully">>,
       <<"-- Total records processed: ">> \o IntToStr(Len(databases)),
       RuleLine >>

RECURSIVE AllRecordLines(_)
AllRecordLines(databases) ==
    IF databases = <<>> THEN <<>>
    ELSE BackupRecordLines(databases[1]) \o AllRecordLines(Tail(databases))

\* generate_backup_sql for the rows its query returned
generate_backup_sql(databases) ==
    IF databases = <<>> THEN <<"-- No databases to backup", "\n">>
    ELSE JoinLines(BackupHeader(databases) \o AllRecordLines(databases)
                   \o BackupFooter(databases))

\* db.query(Database).order_by(Database.created_at).all(): rows with equal
\* created_at come in any order
OrderedByCreatedAt ==
    {f \in Orders(store) :
        \A i, j \in DOMAIN f : i < j => f[i].created_at <= f[j].created_at}

\* base64.b64encode(sql.encode('utf-8')).decode('utf-8'): an encoding anyone
\* reverses, kept symbolic
encode_sql_to_base64(sql) == [b64 |-> sql]
Base64Decode(text) == text.b64

\* len(content.encode('utf-8')) for the characters of this model, by halves
RECURSIVE Utf8Len(_)
Utf8Len(text) ==
    IF text = <<>> THEN 0
    ELSE IF Len(text) = 1 THEN Len(text[1])
    ELSE LET h == Len(text) \div 2
         IN  Utf8Len(SubSeq(text, 1, h)) + Utf8Len(SubSeq(text, h + 1, Len(text)))

BytesPerMb == 1048576

\* round(size_bytes / (1024 * 1024), 4), in ten-thousandths of a megabyte
calculate_size_mb(content) ==
    (2 * 10000 * Utf8Len(content) + BytesPerMb) \div (2 * BytesPerMb)

-----------------------------------------------------------------------------
(* Restoring a backup: "psql -f backup.sql" (databases.py 91-93) against a *)
(* table with the schema of app/models/database.py.  psql reads the file   *)
(* line by line, sends each statement when it meets its ";" outside        *)
(* quotes and comments, and goes on after a statement that fails.          *)

CommentTokens ==
    {"-- =====", "-- Database Connections Backup", "-- Generated: ",
     "-- Total records: ", "-- Ensure database_status enum exists",
     "-- Backup record: ", "-- Backup completed successfully",
     "-- Total records processed: ", "-- No databases to backup"}

Whitespace == {" ", "\n", Indent}

Tok(t) == [kind |-> "tok", text |-> <<t>>]
Lit(l) == [kind |-> "lit", text |-> l]

\* the columns of the table
Columns(r) ==
    [id |-> r.id, name |-> r.name, slug |-> r.slug, type |-> r.type,
     connection_string |-> r.connection_string, description |-> r.description,
     status |-> r.status, created_at |-> r.created_at, updated_at |-> r.updated_at]

\* the statement generate_backup_sql writes, "?" standing for a value
InsertShape ==
    <<"INSERT INTO databases (",
      "id, name, slug, type, connection_string, description, status, created_at, updated_at",
      ") VALUES (",
      "?", "::uuid,", "?", ",", "?", ",", "?", ",", "?", ",", "?", ",",
      "?", "::database_status,", "?", "::timestamp with time zone,",
      "?", "::timestamp with time zone", ")",
      "ON CONFLICT (id) DO UPDATE SET",
      "name = ", "?", ",", "slug = ", "?", ",", "type = ", "?", ",",
      "connection_string = ", "?", ",", "description = ", "?", ",",
      "status = ", "?", "::database_status,",
      "updated_at = ", "?", "::timestamp with time zone">>

\* a value is a string literal or the keyword NULL
IsSqlValue(item) == item.kind = "lit" \/ item.text = <<"NULL">>
SqlValue(item) == IF item.kind = "lit" THEN item.text ELSE NoneVal

IsDigits(text) == text # <<>> /\ \A i \in DOMAIN text : text[i] \in DigitChars

\* the statement parses as the upsert and its casts succeed
IsUpsert(items) ==
    /\ Len(items) = Len(InsertShape)
    /\ \A i \in DOMAIN InsertShape :
         IF InsertShape[i] = "?" THEN IsSqlValue(items[i])
         ELSE items[i].kind = "tok" /\ items[i].text = <<InsertShape[i]>>
    /\ items[4].kind = "lit" /\ IsUuidLiteral(items[4].text)
    /\ \A i \in {16, 40} : items[i].kind = "lit" /\ items[i].text \in {Active, Inactive}
    /\ \A i \in {18, 20, 43} : items[i].kind = "lit" /\ IsDigits(items[i].text)

NotNullOk(r) == \A f \in NotNullColumns : r[f] # NoneVal

\* INSERT ... ON CONFLICT (id) DO UPDATE SET ...: a constraint violation
\* fails the statement and leaves the table as it was
Upsert(rows, items) ==
    LET ins == [id |-> ParseUuid(items[4].text), name |-> SqlValue(items[6]),
                slug |-> SqlValue(items[8]), type |-> SqlValue(items[10]),
                connection_string |-> SqlValue(items[12]),
                description |-> SqlValue(items[14]), status |-> SqlValue(items[16]),
                created_at |-> ParseIso(items[18].text),
                updated_at |-> ParseIso(items[20].text)]
        hit == {r \in rows : r.id = ins.id}
    IN  IF hit = {}
        THEN IF NotNullOk(ins) /\ ~\E r \in rows : r.slug = ins.slug
             THEN rows \cup {ins} ELSE rows
        ELSE LET old == CHOOSE r \in hit : TRUE
                 new == [old EXCEPT !.name = SqlValue(items[25]),
                                    !.slug = SqlValue(items[28]),
                                    !.type = SqlValue(items[31]),
                                    !.connection_string = SqlValue(items[34]),
                                    !.description = SqlValue(items[37]),
                                    !.status = SqlValue(items[40]),
                                    !.updated_at = ParseIso(items[43].text)]
             IN  IF NotNullOk(new) /\ ~\E r \in rows \ {old} : r.slug = new.slug
                 THEN (rows \ {old}) \cup {new} ELSE rows

\* one statement sent to the server: the upsert, or something that does not
\* touch the rows (the DO block, an empty statement, a syntax error)
Execute(rows, items) == IF IsUpsert(items) THEN Upsert(rows, items) ELSE rows

\* the ids of the upsert statements sent so far, in the order of the file
Upserts(ups, items) ==
    IF IsUpsert(items) THEN Append(ups, ParseUuid(items[4].text)) ELSE ups

\* psql's lexer over the tokens of one line, from token i on
RECURSIVE LexLine(_, _, _)
LexLine(toks, i, st) ==
    IF i > Len(toks) THEN st
    ELSE LET tok == toks[i]
             nxt == IF i < Len(toks) THEN toks[i + 1] ELSE ""
         IN  IF st.mode = "sql"
             THEN IF tok \in CommentTokens \/ (tok = "-" /\ nxt = "-") THEN st
                  ELSE IF tok = "'"
                  THEN LexLine(toks, i + 1, [st EXCEPT !.mode = "quote", !.lit = <<>>])
                  ELSE IF tok = "$$"
                  THEN LexLine(toks, i + 1, [st EXCEPT !.mode = "dollar",
                                                      !.items = Append(@, Tok(tok))])
                  ELSE IF tok = ";"
                  THEN LexLine(toks, i + 1,
                               [st EXCEPT !.items = <<>>,
                                          !.rows = Execute(st.rows, st.items),
                                          !.ups = Upserts(st.ups, st.items)])
                  ELSE IF tok \in Whitespace THEN LexLine(toks, i + 1, st)
                  ELSE LexLine(toks, i + 1, [st EXCEPT !.items = Append(@, Tok(tok))])
             ELSE IF st.mode = "quote"
             THEN IF tok = "'"
                  THEN IF nxt = "'"
                       THEN LexLine(toks, i + 2, [st EXCEPT !.lit = Append(@, "'")])
                       ELSE LexLine(toks, i + 1,
                                    [st EXCEPT !.mode = "sql", !.lit = <<>>,
                                               !.items = Append(@, Lit(st.lit))])
                  ELSE LexLine(toks, i + 1, [st EXCEPT !.lit = Append(@, tok)])
             ELSE IF tok = "$$"
                  THEN LexLine(toks, i + 1, [st EXCEPT !.mode = "sql"])
                  ELSE LexLine(toks, i + 1, st)

\* where the line starting at token `pos` ends (its newline, or the end)
LineEnd(text, pos) ==
    IF \E i \in pos..Len(text) : text[i] = "\n"
    THEN CHOOSE i \in pos..Len(text) :
            text[i] = "\n" /\ \A j \in pos..(i - 1) : text[j] # "\n"
    ELSE Len(text)

NoTarget == [active |-> FALSE, rows |-> {}, script |-> <<>>, pos |-> 1, mode |-> "sql",
             lit |-> <<>>, items |-> <<>>, runs |-> 0, once |-> {}, src |-> {},
             ups |-> <<>>, order |-> <<>>, base |-> {}]

\* a restore is under way
Restoring == target.active /\ target.runs < 2

\* the operator saves the script of a finished backup request and points
\* psql at an empty database
RestoreBegin(p) ==
    /\ resp[p].op \in {"backup", "download"}
    /\ resp[p].outcome = "ok"
    /\ pc[p] = "idle"
    /\ ~Restoring
    /\ LET script == IF resp[p].op = "backup" THEN Base64Decode(resp[p].body.sql_base64)
                     ELSE resp[p].body.content
       IN  target' = [NoTarget EXCEPT !.active = TRUE, !.script = script,
                                      !.src = {Columns(r) : r \in Range(resp[p].g_src[1])},
                                      !.order = [i \in DOMAIN resp[p].g_src[1] |->
                                                    Columns(resp[p].g_src[1][i])]]
    /\ UNCHANGED <<store, cache, redis_client, redis_up, now, next_id, pc, ctx, resp,
                   hist, nreq, fn>>

\* psql is in the middle of a file
RestoreRunning == target.active /\ target.pos <= Len(target.script)

\* the operator saves the script of a later backup request and points psql
\* at the database an earlier restore has filled; `base` keeps the rows it
\* held before
RestoreOver(p) ==
    /\ resp[p].op \in {"backup", "download"}
    /\ resp[p].outcome = "ok"
    /\ pc[p] = "idle"
    /\ target.active /\ ~RestoreRunning
    /\ target.rows # {}
    /\ LET script == IF resp[p].op = "backup" THEN Base64Decode(resp[p].body.sql_base64)
                     ELSE resp[p].body.content
       IN  /\ script # target.script
           /\ target' = [NoTarget EXCEPT !.active = TRUE, !.script = script,
                                         !.rows = target.rows, !.base = target.rows,
                                         !.src = {Columns(r) : r \in Range(resp[p].g_src[1])},
                                         !.order = [i \in DOMAIN resp[p].g_src[1] |->
                                                       Columns(resp[p].g_src[1][i])]]
    /\ UNCHANGED <<store, cache, redis_client, redis_up, now, next_id, pc, ctx, resp,
                   hist, nreq, fn>>

\* psql handles the next line of the file; at the end of the file what is
\* left in the query buffer is sent too, and the run is over
PsqlLine ==
    /\ target.active
    /\ target.pos <= Len(target.script)
    /\ LET e == LineEnd(target.script, target.pos)
           st == LexLine(SubSeq(target.script, target.pos, e), 1,
                         [mode |-> target.mode, lit |-> target.lit,
                          items |-> target.items, rows |-> target.rows,
                          ups |-> target.ups])
           last == e = Len(target.script)
           rows == IF last /\ st.mode = "sql" THEN Execute(st.rows, st.items)
                   ELSE st.rows
           ups == IF target.runs > 0 THEN target.ups
                  ELSE IF last /\ st.mode = "sql" THEN Upserts(st.ups, st.items)
                  ELSE st.ups
       IN  target' = IF last
                     THEN [target EXCEPT !.rows = rows, !.pos = e + 1, !.mode = "sql",
                                         !.lit = <<>>, !.items = <<>>,
                                         !.runs = @ + 1, !.ups = ups,
                                         !.once = IF target.runs = 0 THEN rows ELSE @]
                     ELSE [target EXCEPT !.rows = st.rows, !.pos = e + 1,
                                         !.mode = st.mode, !.lit = st.lit,
                                         !.items = st.items, !.ups = ups]
    /\ UNCHANGED <<store, cache, redis_client, redis_up, now, next_id, pc, ctx, resp,
                   hist, nreq, fn>>

\* the same file is run once more against what the first run left
PsqlAgain ==
    /\ target.active
    /\ target.pos > Len(target.script)
    /\ target.runs = 1
    /\ target' = [target EXCEPT !.pos = 1]
    /\ UNCHANGED <<store, cache, redis_client, redis_up, now, next_id, pc, ctx, resp,
                   hist, nreq, fn>>

-----------------------------------------------------------------------------
(* backup_databases and download_backup_sql: databases.py 76-143           *)

\* sql_script = generate_backup_sql(db)
BackupGen(p) ==
    /\ pc[p] \in {"backup_gen", "download_gen"}
    /\ \E databases \in OrderedByCreatedAt :
         Goto(p, IF pc[p] = "backup_gen" THEN "backup_count" ELSE "download_count",
              [ctx[p] EXCEPT !.script = generate_backup_sql(databases),
                             !.g_src = <<databases>>])
    /\ UNCHANGED <<store, cache, redis_client, redis_up, now, next_id, hist, nreq, target,
                   fn>>

\* total_records = db.query(Database).count(), a second query, and the
\* BackupResponse
BackupCount(p) ==
    /\ pc[p] = "backup_count"
    /\ Finish(p, Response(ctx[p], "ok", 200, "none",
                 [sql_base64 |-> encode_sql_to_base64(ctx[p].script),
                  size_mb |-> calculate_size_mb(ctx[p].script),
                  size_bytes |-> Utf8Len(ctx[p].script),
                  total_records |-> Cardinality(store)]), hist)
    /\ UNCHANGED <<store, cache, redis_client, redis_up, now, next_id, nreq, target,
                   fn>>

\* the PlainTextResponse with its X-Backup-* headers
DownloadCount(p) ==
    /\ pc[p] = "download_count"
    /\ Finish(p, Response(ctx[p], "ok", 200, "none",
                 [content |-> ctx[p].script,
                  size_mb |-> calculate_size_mb(ctx[p].script),
                  total_records |-> Cardinality(store)]), hist)
    /\ UNCHANGED <<store, cache, redis_client, redis_up, now, next_id, nreq, target,
                   fn>>

-----------------------------------------------------------------------------
(* Environment: the Redis server                                           *)

\* the server stops answering / answers again
RedisDown ==
    /\ redis_up
    /\ redis_up' = FALSE
    /\ UNCHANGED <<store, cache, redis_client, now, next_id, pc, ctx, resp, hist, nreq,
                   target, fn>>

RedisRecover ==
    /\ ~redis_up
    /\ redis_up' = TRUE
    /\ UNCHANGED <<store, cache, redis_client, now, next_id, pc, ctx, resp, hist, nreq,
                   target, fn>>

\* the TTL of an entry runs out: Redis drops the key
Expire ==
    /\ \E k \in DOMAIN cache : cache' = Without(cache, {k})
    /\ UNCHANGED <<store, redis_client, redis_up, now, next_id, pc, ctx, resp, hist,
                   nreq, target, fn>>

-----------------------------------------------------------------------------
(* Inputs                                                                   *)

NameDb == <<"D", "b">>
NameDb1 == <<"D", "b", " ", "1">>
NameBang == <<"!">>
NameQuote == <<"o", "'", "k">>
NameBreak == <<"a", "\n", "b">>
TypePg == <<"p", "g">>
Secret1 == <<"s", "1">>
Secret2 == <<"s", "2">>
SlugDb == <<"d", "b">>
SlugQuote == <<"o", "-", "k">>

DescriptionX == <<"x">>

EmptyMap == [k \in {} |-> 0]

NoArgs == Request("none", <<>>, 0, 0, <<>>)

ListReq(skip, limit) == [NoArgs EXCEPT !.op = "list", !.skip = skip, !.limit = limit]
ItemReq(id_or_slug) == [NoArgs EXCEPT !.op = "item", !.id_or_slug = id_or_slug]
CreateReq(name, connection_string) ==
    [NoArgs EXCEPT !.op = "create",
                   !.payload = CreatePayload(name, TypePg, connection_string,
                                             NoneVal, Active)]
UpdateReq(id_or_slug, update_data) ==
    [NoArgs EXCEPT !.op = "update", !.id_or_slug = id_or_slug, !.payload = update_data]
DeleteReq(id_or_slug) == [NoArgs EXCEPT !.op = "delete", !.id_or_slug = id_or_slug]
PingReq(type, connection_string) ==
    [NoArgs EXCEPT !.op = "ping",
                   !.payload = [type |-> type, connection_string |-> connection_string]]
BackupReq == [NoArgs EXCEPT !.op = "backup"]
DownloadReq == [NoArgs EXCEPT !.op = "download"]

-----------------------------------------------------------------------------
(* Initial state: an empty table, an empty Redis, no client created yet    *)

\* no library call under way
NoCall == [f |-> "none", stage |-> "none", arg |-> <<>>, out |-> <<>>, again |-> <<>>]

\* the server before its first request
InitServer ==
    /\ store = {}
    /\ cache = EmptyMap
    /\ redis_client = "None"
    /\ redis_up = TRUE
    /\ now = 0
    /\ next_id = 0
    /\ pc = [p \in Clients |-> "idle"]
    /\ ctx = [p \in Clients |-> IdleCtx]
    /\ resp = [p \in Clients |-> NoResponse]
    /\ hist = [log |-> <<>>, floor |-> EmptyMap, secrets |-> {}, name0 |-> EmptyMap,
               deleted |-> {}]
    /\ nreq = 0
    /\ target = NoTarget

Init == InitServer /\ fn = NoCall

\* the steps of the read handlers and of the mutating handlers
ListHandler(p) == ListGet(p) \/ ListQuery(p) \/ ListSet(p)

ItemHandler(p) == ItemGet(p) \/ ItemQuery(p) \/ ItemSet(p)

ReadHandler(p) == ListHandler(p) \/ ItemHandler(p)

CreateHandler(p) ==
    CreateSlugQuery(p) \/ CreateCheck(p) \/ CreateCommit(p) \/ CreateInval(p)

UpdateHandler(p) == UpdateResolve(p) \/ UpdateCommit(p) \/ UpdateInval(p)

DeleteHandler(p) == DeleteResolve(p) \/ DeleteCommit(p) \/ DeleteInval(p)

WriteHandler(p) == CreateHandler(p) \/ UpdateHandler(p) \/ DeleteHandler(p)

Handler(p) == ReadHandler(p) \/ WriteHandler(p)

-----------------------------------------------------------------------------
(* Spec: concurrent creates, updates and deletes                           *)

MaxRequests == 3
Menu ==
    { CreateReq(NameDb, Secret1),
      UpdateReq(SlugDb, [name |-> NameDb1]),
      DeleteReq(SlugDb) }

Start(p) == StartWith(p, Menu, MaxRequests)

Next == \E p \in Clients : Start(p) \/ WriteHandler(p)

Spec == Init /\ [][Next]_vars

-----------------------------------------------------------------------------
(* SeqSpec: one client, one request at a time, Redis up, nothing expires   *)

MaxSeq == 4
SeqMenu ==
    { ListReq(0, 100), ItemReq(SlugDb),
      CreateReq(NameDb, Secret1), CreateReq(NameDb1, Secret2), CreateReq(NameBang, <<>>),
      UpdateReq(SlugDb, [status |-> Inactive]),
      DeleteReq(SlugDb) }

SeqStart == StartWith(1, SeqMenu, MaxSeq)

SeqNext == SeqStart \/ Handler(1)

SeqSpec == Init /\ [][SeqNext]_vars

-----------------------------------------------------------------------------
(* RaceSpec: a reading client against a writing client                     *)

MaxRace == 4
ReaderMenu == { ListReq(0, 100), ItemReq(SlugDb) }
WriterMenu ==
    { CreateReq(NameDb, Secret1), UpdateReq(SlugDb, [status |-> Inactive]),
      DeleteReq(SlugDb) }

ReaderStart == StartWith(1, ReaderMenu, MaxRace)
WriterStart == StartWith(2, WriterMenu, MaxRace)

RaceNext == ReaderStart \/ WriterStart \/ \E p \in Clients : Handler(p)

RaceSpec == Init /\ [][RaceNext]_vars

-----------------------------------------------------------------------------
(* FailSpec: one client against a Redis server that fails and recovers and *)
(* whose entries may expire                                                 *)

MaxFail == 3
FailMenu ==
    { ListReq(0, 100), ItemReq(SlugDb), CreateReq(NameDb, Secret1),
      UpdateReq(SlugDb, [status |-> Inactive]), DeleteReq(SlugDb) }

FailStart == StartWith(1, FailMenu, MaxFail)

FailNext == FailStart \/ Handler(1) \/ RedisDown \/ RedisRecover \/ Expire

FailSpec == Init /\ [][FailNext]_vars

-----------------------------------------------------------------------------
(* BackupSpec: one client that also takes backups, and an operator who     *)
(* restores them.  psql's steps touch only the target and commute with     *)
(* every handler step, so a restore is run to its end between requests.    *)

MaxBackup == 3
BackupMenu ==
    { CreateReq(NameQuote, Secret1), CreateReq(NameBreak, Secret2),
      UpdateReq(SlugQuote, [connection_string |-> Secret2]),
      DeleteReq(SlugQuote),
      ListReq(0, 100), ItemReq(SlugQuote), BackupReq, DownloadReq }

BackupStart == ~Restoring /\ StartWith(1, BackupMenu, MaxBackup)

BackupNext ==
    \/ BackupStart
    \/ Handler(1)
    \/ BackupGen(1) \/ BackupCount(1) \/ DownloadCount(1)
    \/ RestoreBegin(1) \/ PsqlLine \/ PsqlAgain

BackupSpec == Init /\ [][BackupNext]_vars

-----------------------------------------------------------------------------
(* OverSpec: one client that changes the table between two backups, and an *)
(* operator who restores the first backup into an empty database and the   *)
(* second one over what the first restore left                             *)

MaxOver == 4
OverMenu ==
    { CreateReq(NameDb, Secret1),
      UpdateReq(SlugDb, [name |-> NameDb1, connection_string |-> Secret2,
                         description |-> DescriptionX, status |-> Inactive]),
      UpdateReq(SlugDb, [name |-> NameBreak]),
      DeleteReq(SlugDb),
      BackupReq }

OverStart == ~RestoreRunning /\ StartWith(1, OverMenu, MaxOver)

OverNext ==
    \/ OverStart
    \/ CreateHandler(1) \/ UpdateHandler(1) \/ DeleteHandler(1)
    \/ BackupGen(1) \/ BackupCount(1)
    \/ RestoreBegin(1) \/ RestoreOver(1) \/ PsqlLine

OverSpec == Init /\ [][OverNext]_vars

-----------------------------------------------------------------------------
(* DumpSpec: one client taking backups while another creates and deletes   *)
(* a record                                                                *)

MaxDump == 3
DumpMenu == { BackupReq, DownloadReq }
DumpWriterMenu == { CreateReq(NameDb, Secret1), DeleteReq(SlugDb) }

DumpStart == StartWith(1, DumpMenu, MaxDump) \/ StartWith(2, DumpWriterMenu, MaxDump)

DumpNext ==
    \/ DumpStart
    \/ BackupGen(1) \/ BackupCount(1) \/ DownloadCount(1)
    \/ CreateHandler(2) \/ DeleteHandler(2)

DumpSpec == Init /\ [][DumpNext]_vars

-----------------------------------------------------------------------------
(* UpdateSpec: one client creating a record and updating it with payloads  *)
(* that set, clear and leave out fields                                    *)

MaxUpdate == 3
UpdateMenu ==
    { CreateReq(NameDb, Secret1),
      UpdateReq(SlugDb, [description |-> DescriptionX]),
      UpdateReq(SlugDb, [description |-> NoneVal]),
      UpdateReq(SlugDb, [name |-> NoneVal]),
      UpdateReq(SlugDb, [name |-> NameDb1, status |-> Inactive]),
      UpdateReq(SlugDb, [connection_string |-> NoneVal, type |-> TypePg]),
      UpdateReq(SlugDb, EmptyMap) }

UpdateStart == StartWith(1, UpdateMenu, MaxUpdate)

UpdateNext == UpdateStart \/ CreateHandler(1) \/ UpdateHandler(1)

UpdateSpec == Init /\ [][UpdateNext]_vars

-----------------------------------------------------------------------------
(* PatchSpec: one client renaming a record to the name of another one, and *)
(* sending update bodies that name columns the update schema does not have *)

SlugDb1 == <<"d", "b", "-", "1">>

MaxPatch == 3
PatchMenu ==
    { CreateReq(NameDb, Secret1), CreateReq(NameDb1, Secret2),
      UpdateReq(SlugDb, [name |-> NameDb1]),
      UpdateReq(SlugDb, [name |-> NameDb1, slug |-> SlugDb1, id |-> Uuid4(2),
                         created_at |-> 0]),
      UpdateReq(SlugDb, [slug |-> SlugDb1]) }

PatchStart == StartWith(1, PatchMenu, MaxPatch)

PatchNext == PatchStart \/ CreateHandler(1) \/ UpdateHandler(1)

PatchSpec == Init /\ [][PatchNext]_vars

-----------------------------------------------------------------------------
(* LookupSpec: one client addressing records by slug, by id in several     *)
(* spellings, and by a slug that reads as an id                            *)

\* a name, and so a slug, that is the hexadecimal form of the second id
NameUuid == Uuid4(2)

\* the first id written with the 0x prefix int(hex, 16) accepts
ZeroXId1 == <<"0", "x">> \o SubSeq(Uuid4(1), 3, UuidHexLen)

MaxLookup == 3
LookupMenu ==
    { CreateReq(NameDb, Secret1), CreateReq(NameUuid, Secret2),
      ItemReq(SlugDb), ItemReq(NameUuid), ItemReq(UuidStr(Uuid4(1))), ItemReq(ZeroXId1),
      UpdateReq(NameUuid, [status |-> Inactive]),
      UpdateReq(SlugDb, [status |-> Inactive]),
      DeleteReq(UuidStr(Uuid4(1))), DeleteReq(SlugDb) }

LookupStart == StartWith(1, LookupMenu, MaxLookup)

LookupNext == LookupStart \/ ItemHandler(1) \/ WriteHandler(1)

LookupSpec == Init /\ [][LookupNext]_vars

-----------------------------------------------------------------------------
(* LifeSpec: two clients creating a record and updating and deleting it by *)
(* its id                                                                  *)

Id1 == UuidStr(Uuid4(1))

MaxLife == 3
LifeMenu ==
    { CreateReq(NameDb, Secret1),
      UpdateReq(Id1, [status |-> Inactive]),
      DeleteReq(Id1) }

LifeStart(p) == StartWith(p, LifeMenu, MaxLife)

LifeNext == \E p \in Clients : LifeStart(p) \/ WriteHandler(p)

LifeSpec == Init /\ [][LifeNext]_vars

-----------------------------------------------------------------------------
(* PingSpec: one client probing connection strings                         *)

UrlPg == <<"p", "g", ":", "/", "/", "h">>
UrlBad == <<"x">>
UrlLocalhost == <<"l", "o", "c", "a", "l", "h", "o", "s", "t">>

MaxPing == 2
PingMenu == { PingReq(TypePg, UrlPg), PingReq(TypePg, UrlBad), PingReq(TypePg, UrlLocalhost) }

PingStart == StartWith(1, PingMenu, MaxPing)

PingNext == PingStart \/ PingEngine(1) \/ PingConnect(1) \/ PingQuery(1)

PingSpec == Init /\ [][PingNext]_vars

-----------------------------------------------------------------------------
(* CipherSpec: encrypt_connection_string and decrypt_connection_string     *)
(* applied to one plaintext                                                *)

\* all texts over an alphabet up to a length
Texts(alphabet, n) == UNION {[1..k -> alphabet] : k \in 0..n}

MaxPlain == 3
PlainAlphabet == {"p", "g", ":", "/", "@"}

\* plaintexts of one block less one byte, of exactly one block and of
\* more than one block
Block15 == [i \in 1..(BlockBytes - 1) |-> "x"]
Block16 == [i \in 1..BlockBytes |-> "x"]
Block17 == [i \in 1..(BlockBytes + 1) |-> "x"]

Plaintexts == Texts(PlainAlphabet, MaxPlain) \cup {Secret1, Block15, Block16, Block17}

\* a call that has its argument and has not run yet
CallOf(f, arg) == [NoCall EXCEPT !.f = f, !.stage = "input", !.arg = arg]

\* the server plays no part in a library call
ServerIdle ==
    UNCHANGED <<store, cache, redis_client, redis_up, now, next_id, pc, ctx, resp,
                hist, nreq, target>>

CipherInit == InitServer /\ fn \in {CallOf("cipher", p) : p \in Plaintexts}

Encrypt ==
    /\ fn.f = "cipher" /\ fn.stage = "input"
    /\ fn' = [fn EXCEPT !.stage = "encrypted", !.out = encrypt_connection_string(fn.arg)]
    /\ ServerIdle

Decrypt ==
    /\ fn.f = "cipher" /\ fn.stage = "encrypted"
    /\ fn' = [fn EXCEPT !.stage = "decrypted", !.again = decrypt_connection_string(fn.out)]
    /\ ServerIdle

CipherNext == Encrypt \/ Decrypt

CipherSpec == CipherInit /\ [][CipherNext]_vars

-----------------------------------------------------------------------------
(* GarbleSpec: decrypt_connection_string applied to a ciphertext that was  *)
(* cut, extended or altered on its way                                     *)

GarblePlaintexts == {<<>>, <<"p">>, Secret1, Block15, Block16, Block17}

\* the byte in last position replaced by the cipher's image of byte b
WithLast(c, b) == [i \in DOMAIN c |-> IF i = Len(c) THEN CipherByte(b) ELSE c[i]]

\* what may arrive instead of the ciphertext c: any prefix of it (the empty
\* text, parts of a block, whole blocks without the padding), c with another
\* last byte, c with characters from outside or inside the base64 alphabet
\* added, and such characters alone
Garbled(c) ==
    {SubSeq(c, 1, k) : k \in 0..Len(c)}
    \cup {WithLast(c, b) : b \in {"x", "#01", "#02", "#16"}}
    \cup {<<"!">> \o c, c \o <<"\n">>, c \o <<"A">>, <<"=">> \o c, c \o c,
          <<"!", " ">>, <<"n", "o">>}

Garble ==
    /\ fn.f = "cipher" /\ fn.stage = "encrypted"
    /\ \E g \in Garbled(fn.out) : fn' = [fn EXCEPT !.stage = "garbled", !.out = g]
    /\ ServerIdle

DecryptGarbled ==
    /\ fn.f = "cipher" /\ fn.stage = "garbled"
    /\ fn' = [fn EXCEPT !.stage = "recovered", !.again = decrypt_connection_string(fn.out)]
    /\ ServerIdle

GarbleInit == InitServer /\ fn \in {CallOf("cipher", p) : p \in GarblePlaintexts}

GarbleNext == Encrypt \/ Garble \/ DecryptGarbled

GarbleSpec == GarbleInit /\ [][GarbleNext]_vars

-----------------------------------------------------------------------------
(* CleanSpec: the clean-up of test_database_connection applied to one      *)
(* error text made of a few fragments                                      *)

\* fragments in mixed case: the five words, parts of them, other text
ErrFragments ==
    { <<"T", "i", "m", "e", "O", "u", "t">>, <<"P", "A", "S", "S", "W", "O", "R", "D", " ">>, <<"A", "u", "t", "h", "e", "n", "t", "i", "c", "a", "t", "i", "o", "n">>, <<"H", "o", "s", "t">>, <<"C", "o", "n", "n", "e", "c", "t", "i", "o", "n", " ", "R", "e", "f", "u", "s", "e", "d">>, <<"b", "o", "o", "m", " ">>, <<"t", "i", "m", "e", " ", "o", "u", "t">>, <<"c", "o", "n", "n", "e", "c", "t", "i", "o", "n">> }

\* the texts of up to n fragments
RECURSIVE ErrTexts(_)
ErrTexts(n) ==
    IF n = 0 THEN {<<>>}
    ELSE ErrTexts(n - 1) \cup {e \o f : e \in ErrTexts(n - 1), f \in ErrFragments}

MaxFragments == 2

CleanInit == InitServer /\ fn \in {CallOf("clean", e) : e \in ErrTexts(MaxFragments)}

Clean ==
    /\ fn.f = "clean" /\ fn.stage = "input"
    /\ fn' = [fn EXCEPT !.stage = "cleaned", !.out = CleanMessage(fn.arg)]
    /\ ServerIdle

CleanNext == Clean

CleanSpec == CleanInit /\ [][CleanNext]_vars

-----------------------------------------------------------------------------
(* SlugSpec: generate_slug applied to one name, and to its own result      *)

MaxName == 3
NameAlphabet == {"a", "B", "1", "-", " ", "!"}
Names == Texts(NameAlphabet, MaxName)

SlugInit == InitServer /\ fn \in {CallOf("slug", name) : name \in Names}

DeriveSlug ==
    /\ fn.f = "slug" /\ fn.stage = "input"
    /\ fn' = [fn EXCEPT !.stage = "derived", !.out = generate_slug(fn.arg)]
    /\ ServerIdle

DeriveAgain ==
    /\ fn.f = "slug" /\ fn.stage = "derived"
    /\ fn' = [fn EXCEPT !.stage = "rederived", !.again = generate_slug(fn.out)]
    /\ ServerIdle

SlugNext == DeriveSlug \/ DeriveAgain

SlugSpec == SlugInit /\ [][SlugNext]_vars

-----------------------------------------------------------------------------
(* CacheSpec: invalidate_database_cache applied to a Redis keyspace that   *)
(* holds any of a pool of keys                                             *)

ListKeys == {cache_key_database_list(skip, limit) : skip \in {0, 10}, limit \in {10, 100}}
ItemKeys == {cache_key_database(SlugDb), cache_key_database(Id1)}
OtherKeys == {DebugKey, <<"database:", "list:", "0">>, <<"sessions:", "databases:", "1">>}
KeyPool == ListKeys \cup ItemKeys \cup OtherKeys

\* the entry stored under a key
EntryOf(key) == [value |-> JsonText(key), ttl |-> CACHE_TTL, at |-> 0]

CacheInit ==
    /\ fn = CallOf("invalidate", <<>>)
    /\ store = {}
    /\ \E keys \in SUBSET KeyPool : cache = [k \in keys |-> EntryOf(k)]
    /\ redis_client = "None"
    /\ redis_up \in BOOLEAN
    /\ now = 0
    /\ next_id = 0
    /\ pc = [p \in Clients |-> "idle"]
    /\ ctx = [p \in Clients |-> IdleCtx]
    /\ resp = [p \in Clients |-> NoResponse]
    /\ hist = [log |-> <<>>, floor |-> EmptyMap, secrets |-> {}, name0 |-> EmptyMap,
               deleted |-> {}]
    /\ nreq = 0
    /\ target = NoTarget

\* await invalidate_database_cache()
Invalidate ==
    /\ fn.f = "invalidate" /\ fn.stage = "input"
    /\ LET inv == invalidate_database_cache
       IN  /\ cache' = inv.cache
           /\ fn' = [fn EXCEPT !.stage = "done", !.arg = cache, !.out = inv.ok]
    /\ redis_client' = get_redis
    /\ UNCHANGED <<store, redis_up, now, next_id, pc, ctx, resp, hist, nreq, target>>

CacheNext == Invalidate

CacheSpec == CacheInit /\ [][CacheNext]_vars

-----------------------------------------------------------------------------
(* TtlSpec: one client, a Redis server that may stop answering, and time   *)
(* that passes between the steps.  Redis drops a key when the time since   *)
(* its SETEX reaches the TTL it was stored with.                           *)

MaxTtl == 2
TtlMenu ==
    { ListReq(0, 100), ItemReq(SlugDb), CreateReq(NameDb, Secret1),
      UpdateReq(SlugDb, [status |-> Inactive]), DeleteReq(SlugDb) }

\* how much time passes at once, and how long the clock is followed
TickSteps == {CACHE_TTL - 2, CACHE_TTL}
MaxClock == 2 * CACHE_TTL

Tick ==
    /\ \E d \in TickSteps :
         /\ now + d <= MaxClock
         /\ now' = now + d
    /\ cache' = Unexpired(now')
    /\ UNCHANGED <<store, redis_client, redis_up, next_id, pc, ctx, resp, hist, nreq,
                   target, fn>>

TtlStart == StartWith(1, TtlMenu, MaxTtl)

TtlNext == TtlStart \/ Handler(1) \/ RedisDown \/ RedisRecover \/ Tick

TtlSpec == Init /\ [][TtlNext]_vars

-----------------------------------------------------------------------------
(* Properties                                                              *)

\* the views a response carries
BodyViews(r) ==
    IF r.outcome # "ok" THEN {}
    ELSE IF r.op = "list" THEN Range(r.body)
    ELSE IF r.op \in {"item", "create", "update"} THEN {r.body}
    ELSE {}

\* the script a backup or download response carries
ScriptOf(r) ==
    IF r.op = "backup" THEN Base64Decode(r.body.sql_base64) ELSE r.body.content

FloorAt(f, id) == IF id \in DOMAIN f THEN f[id] ELSE 0

\* read i of the log follows a successful mutation with no read of the same
\* key in between
FirstReadAfterMutation(i) ==
    /\ hist.log[i].op \in ReadOps
    /\ \E j \in 1..(i - 1) :
         /\ hist.log[j].op \in MutatingOps
         /\ hist.log[j].outcome = "ok"
         /\ \A k \in (j + 1)..(i - 1) : hist.log[k].cache_key # hist.log[i].cache_key

\* C1: in a sequential execution with Redis up, the first list read and the
\* first item read of a key after a successful create, update or delete finds
\* nothing in the cache (the cache layer logs a miss), is answered from
\* storage, is never marked HIT, and is marked MISS whenever it returns data
\* (a 404 carries no cache status).
C1_ReadAfterMutationMisses ==
    \A i \in DOMAIN hist.log :
        FirstReadAfterMutation(i) =>
            /\ hist.log[i].g_layer = "MISS"
            /\ hist.log[i].g_storage
            /\ hist.log[i].header # "HIT"
            /\ hist.log[i].outcome = "ok" => hist.log[i].header = "MISS"

\* a key found in the cache by one read, then a successful mutation, then a
\* read of the same key that misses and returns data from storage
C1_Witness ==
    \E i, j, k \in DOMAIN hist.log :
        /\ i < j /\ k = j + 1
        /\ hist.log[i].op \in ReadOps /\ hist.log[i].g_layer = "HIT"
        /\ hist.log[j].op \in MutatingOps /\ hist.log[j].outcome = "ok"
        /\ hist.log[k].op \in ReadOps /\ hist.log[k].cache_key = hist.log[i].cache_key
        /\ hist.log[k].g_layer = "MISS" /\ hist.log[k].header = "MISS"
        /\ hist.log[k].g_storage

\* C2: for every interleaving of a reading and a writing client, a read that
\* starts after an update has run its invalidation returns, for that record,
\* the updated representation or a later one, whether it is answered from the
\* cache or from storage.
C2_NoStaleReadAfterInvalidation ==
    \A p \in Clients :
        resp[p].op \in ReadOps =>
            \A v \in BodyViews(resp[p]) : v.gver >= FloorAt(resp[p].g_floor, v.id.value)

\* a read overlapped an update (it started before the update's invalidation
\* and finished after it), and a later read, started after both, returned the
\* record as updated
C2_Witness ==
    /\ resp[1].op \in ReadOps /\ resp[1].outcome = "ok"
    /\ \E v \in BodyViews(resp[1]) :
         v.status = Inactive /\ FloorAt(resp[1].g_floor, v.id.value) >= 1
    /\ \E i, j \in DOMAIN hist.log :
         /\ i < j /\ j < Len(hist.log)
         /\ hist.log[i].op = "update" /\ hist.log[i].outcome = "ok"
         /\ hist.log[j].op \in ReadOps /\ hist.log[j].outcome = "ok"
         /\ hist.log[j].g_start < i
         /\ resp[1].g_start >= j

\* C3: a read that follows a successful read of the same key that missed,
\* with nothing in between, is marked HIT and does not consult storage.
C3_SecondReadHits ==
    \A i \in DOMAIN hist.log :
        ( /\ i > 1
          /\ hist.log[i].op \in ReadOps
          /\ hist.log[i - 1].op \in ReadOps
          /\ hist.log[i - 1].cache_key = hist.log[i].cache_key
          /\ hist.log[i - 1].outcome = "ok"
          /\ hist.log[i - 1].header = "MISS" )
        => hist.log[i].header = "HIT" /\ ~hist.log[i].g_storage

\* the ciphertexts of every connection string the table ever held
Ciphertexts == {encrypt_connection_string(x) : x \in hist.secrets}

\* a connection string as it may leave the service: a ciphertext, and not a
\* stored plaintext unless it is the empty one
IsCiphertextOnly(text) ==
    /\ text \in Ciphertexts
    /\ text \in hist.secrets => text = <<>>

\* the views of a response are the encrypted views of the rows they were
\* made from
ViewsMatchSource(r) ==
    r.g_src # <<>> =>
        IF r.op = "list"
        THEN r.body = [i \in DOMAIN r.g_src[1] |-> ViewOf(r.g_src[1][i])]
        ELSE r.body = ViewOf(r.g_src[1][1])

ResponsesCarryCiphertext ==
    \A p \in Clients :
        (resp[p].op \in {"list", "item", "create", "update"} /\ resp[p].outcome = "ok") =>
            /\ \A v \in BodyViews(resp[p]) : IsCiphertextOnly(v.connection_string)
            /\ ViewsMatchSource(resp[p])

CacheCarriesCiphertext ==
    \A k \in DOMAIN cache :
        LET value == json_loads(cache[k].value)
        IN  \A i \in DOMAIN value :
                /\ DOMAIN value = 1..Len(value)
                /\ IsCiphertextOnly(value[i].connection_string)

\* C4: every list, item, create and update response, and every value in the
\* cache, carries the cipher's output for the stored connection string, which
\* differs from the plaintext whenever that is not empty; backup and download
\* responses carry the stored connection string itself, as an SQL literal.
C4_CiphertextExceptBackup ==
    /\ ResponsesCarryCiphertext
    /\ CacheCarriesCiphertext
    /\ \A p \in Clients :
         (resp[p].op \in {"backup", "download"} /\ resp[p].outcome = "ok") =>
            \A row \in Range(resp[p].g_src[1]) :
                Contains(ScriptOf(resp[p]), escape_sql_string(row.connection_string))

\* a backup of a table with a non-empty secret, after an item read returned
\* the record
C4_Witness ==
    /\ resp[1].op = "backup" /\ resp[1].outcome = "ok"
    /\ \E row \in Range(resp[1].g_src[1]) : row.connection_string # <<>>
    /\ \E i \in DOMAIN hist.log :
         hist.log[i].op = "item" /\ hist.log[i].outcome = "ok"

\* C4 as stated: no response, backup and download included, carries a stored
\* connection string in plaintext.
C4_NeverPlaintext ==
    /\ ResponsesCarryCiphertext
    /\ CacheCarriesCiphertext
    /\ \A p \in Clients :
         (resp[p].op \in {"backup", "download"} /\ resp[p].outcome = "ok") =>
            \A row \in Range(resp[p].g_src[1]) :
                row.connection_string # <<>> =>
                    ~Contains(ScriptOf(resp[p]), row.connection_string)

SlugChars == LowerChars \cup DigitChars \cup {"-"}

\* slug is the projection of name, or the projection followed by -N
IsProjection(slug, name) ==
    /\ \A i \in DOMAIN slug : slug[i] \in SlugChars
    /\ \/ slug = generate_slug(name)
       \/ \E n \in 1..next_id : slug = generate_slug(name) \o <<"-">> \o IntToStr(n)

\* C5: in every reachable state, under every interleaving of creates, updates
\* and deletes, no two rows share a slug, and every row's slug is the
\* lowercase hyphen-delimited projection of the name the row was created
\* with, optionally followed by -N.
C5_SlugUniqueProjection ==
    /\ \A r1, r2 \in store : r1.slug = r2.slug => r1 = r2
    /\ \A r \in store : IsProjection(r.slug, hist.name0[r.id])

\* two rows created from the same name, one of them renamed since
C5_Witness ==
    /\ \E r1, r2 \in store :
         /\ r1 # r2
         /\ hist.name0[r1.id] = hist.name0[r2.id]
         /\ r1.name # hist.name0[r1.id]
    /\ \E i \in DOMAIN hist.log : hist.log[i].op = "update" /\ hist.log[i].outcome = "ok"

\* C6: a create that loses at the unique index ends as Conflict or, after a
\* retry, successfully.
C6_LoserGetsConflict ==
    \A p \in Clients : resp[p].g_lost => resp[p].outcome \in {"Conflict", "ok"}

\* the n-th slug tried: the base, then base-1, base-2, ...
Candidate(base, n) == IF n = 0 THEN base ELSE base \o <<"-">> \o IntToStr(n)

\* the first candidate no row has
MinFreeSlug(base, rows) ==
    Candidate(base,
              CHOOSE n \in 0..Cardinality(rows) :
                  /\ ~\E r \in rows : r.slug = Candidate(base, n)
                  /\ \A m \in 0..(n - 1) : \E r \in rows : r.slug = Candidate(base, m))

\* C7: in a sequential execution the slug generate_unique_slug settles on is
\* the projection of the name when no row has it, and otherwise the
\* projection followed by -N for the smallest N >= 1 no row has.
C7_SmallestFreeCounter ==
    \A p \in Clients :
        pc[p] = "create_check" =>
            ctx[p].final_slug = MinFreeSlug(generate_slug(ctx[p].payload.name), store)

\* a third "Db" while "db" exists and "db-1" belongs to a row named "Db 1"
C7_Witness ==
    /\ pc[1] = "create_check"
    /\ ctx[1].payload.name = NameDb
    /\ ctx[1].final_slug = SlugDb \o <<"-", "2">>
    /\ \E r \in store : r.name = NameDb1 /\ r.slug = SlugDb \o <<"-", "1">>

\* C8: no row is persisted with an empty slug.
C8_NoEmptySlug == \A r \in store : r.slug # <<>>

\* the handler steps that call the cache
CacheSteps ==
    {"list_get", "list_set", "item_get", "item_set", "create_inval", "update_inval",
     "delete_inval"}

\* a request during which a cache call failed ends as it would with an
\* empty cache
AsWithEmptyCache(r) ==
    /\ r.op \in ReadOps =>
         /\ r.header # "HIT"
         /\ r.g_storage
         /\ r.outcome \in {"ok", "NotFound"}
         /\ r.outcome = "ok" => r.header = "MISS" /\ ViewsMatchSource(r)
    /\ r.op \in MutatingOps => r.outcome \in {"ok", "NotFound", "Conflict"}

\* a cache call made while Redis is down, or a set_cache of a value
\* json.dumps rejects, leaves the cache as it was
FailedCallIsNoOp ==
    \A p \in Clients :
        ( /\ pc[p] \in CacheSteps
          /\ pc'[p] # pc[p]
          /\ \/ ~redis_up
             \/ pc[p] = "list_set" /\ ctx[p].result # <<>>
             \/ pc[p] = "item_set" )
        => cache' = cache

\* C9: no request ends with a cache error; a request during which the cache
\* backend failed (connection or serialization) completes as it would with an
\* empty cache; and a failing cache call changes nothing in the cache.
C9_FailOpen ==
    /\ [](\A p \in Clients :
            /\ resp[p].outcome # "CacheFailure"
            /\ resp[p].g_err => AsWithEmptyCache(resp[p]))
    /\ [][FailedCallIsNoOp]_vars

\* with Redis down, a create succeeded although its invalidation failed and a
\* list read returned the record from storage although its lookup failed
C9_Witness ==
    /\ ~redis_up
    /\ resp[1].op = "list" /\ resp[1].outcome = "ok" /\ resp[1].g_layer = "ERR"
    /\ resp[1].body # <<>>
    /\ \E i \in DOMAIN hist.log :
         /\ hist.log[i].op = "create" /\ hist.log[i].outcome = "ok"
         /\ hist.log[i].g_inval = "failed"

\* C10: a script run twice against an empty target leaves the rows one run
\* leaves, and these are the rows of the table the script was generated from.
C10_ReplayRestoresSource ==
    target.runs = 2 => target.rows = target.once /\ target.rows = target.src


-----------------------------------------------------------------------------
\* C11: for every plaintext p, the empty one included, decrypting the
\* encryption of p gives p back, and the encryption of the empty text is the
\* empty text.
C11_RoundTrip ==
    /\ fn.f = "cipher" /\ fn.stage \in {"encrypted", "decrypted"} /\ fn.arg = <<>>
          => fn.out = <<>>
    /\ fn.f = "cipher" /\ fn.stage = "decrypted" => fn.again = fn.arg

-----------------------------------------------------------------------------
\* the columns no payload can name
FixedColumns == {"id", "slug", "created_at"}

\* the row `new` is `old` with exactly the payload's fields overwritten
IsPartialUpdate(old, new, update_data) ==
    \A f \in UpdateFields \cup FixedColumns :
        new[f] = IF f \in DOMAIN update_data THEN update_data[f] ELSE old[f]

\* C12: an update that found its record succeeds, every field absent from
\* the payload keeps its stored value and every field present in the
\* payload, one set to null included, takes the payload's value.
C12_PartialUpdate ==
    [][\A p \in Clients :
          pc[p] = "update_commit" /\ pc'[p] # "update_commit"
          => /\ pc'[p] = "update_inval"
             /\ \E old \in store, new \in store' :
                   /\ old.id = ctx[p].database.id /\ new.id = old.id
                   /\ IsPartialUpdate(old, new, ctx[p].payload)]_vars

-----------------------------------------------------------------------------
\* the handler steps that resolve id_or_slug, and the row a step found
ResolveSteps == {"item_query", "update_resolve", "delete_resolve"}
LookupOps == {"item", "update", "delete"}

\* the rows the input designates: by id when it reads as a UUID, by slug
\* otherwise
Designated(id_or_slug) ==
    IF IsUuidLiteral(id_or_slug) THEN {r \in store : r.id = ParseUuid(id_or_slug)}
    ELSE {r \in store : r.slug = id_or_slug}

FoundRow(c) == IF c.op = "item" THEN c.g_src[1][1] ELSE c.database

\* C13: a lookup by id-or-slug looks up only the id when the input parses
\* as a UUID and the whole input as a slug otherwise; when that finds no
\* record the outcome is NotFound (404) in both branches, and no lookup
\* ends in any other error.
C13_LookupDispatch ==
    /\ [](\A p \in Clients :
            resp[p].op \in LookupOps => resp[p].outcome \in {"ok", "NotFound"})
    /\ [][\A p \in Clients :
            pc[p] \in ResolveSteps /\ pc'[p] # pc[p]
            => IF Designated(ctx[p].id_or_slug) = {}
               THEN /\ pc'[p] = "idle"
                    /\ resp'[p].outcome = "NotFound" /\ resp'[p].code = 404
               ELSE /\ pc'[p] # "idle"
                    /\ FoundRow(ctx'[p]) \in Designated(ctx[p].id_or_slug)]_vars

\* a read addressed by a text that parses as a UUID ends as NotFound although
\* a record has that text as its slug
C13_Witness ==
    /\ resp[1].op = "item" /\ resp[1].outcome = "NotFound"
    /\ IsUuidLiteral(resp[1].id_or_slug)
    /\ \E r \in store : r.slug = resp[1].id_or_slug

-----------------------------------------------------------------------------
\* the id a request addresses, when it addresses one
AddressedId(r) == ParseUuid(r.id_or_slug)

\* C14: once a delete of an id has committed, no record with that id is in
\* storage again, whatever is created, updated or deleted afterwards, and
\* every update or delete addressed to that id that begins after the commit
\* ends as NotFound.
C14_DeleteIsTerminal ==
    /\ \A r \in store : r.id \notin hist.deleted
    /\ \A p \in Clients :
          /\ resp[p].op \in {"update", "delete"}
          /\ IsUuidLiteral(resp[p].id_or_slug)
          /\ AddressedId(resp[p]) \in resp[p].g_gone
          => resp[p].outcome = "NotFound" /\ resp[p].code = 404

\* record 1 was created and deleted, and an update addressed to its id that
\* began afterwards was refused
C14_Witness ==
    /\ Uuid4(1) \in hist.deleted
    /\ \E p \in Clients :
          /\ resp[p].op = "update" /\ resp[p].outcome = "NotFound"
          /\ AddressedId(resp[p]) \in resp[p].g_gone

-----------------------------------------------------------------------------
\* C15: the connectivity probe never lets an exception out: whatever the
\* connection string and whichever of engine creation, connection and
\* query fails, the caller gets a result {success, message, latency_ms},
\* with success false exactly on failure and a latency in both outcomes.
C15_ProbeNeverRaises ==
    \A p \in Clients :
        resp[p].op = "ping"
        => /\ resp[p].outcome = "ok" /\ resp[p].code = 200
           /\ DOMAIN resp[p].body = {"success", "message", "latency_ms"}
           /\ resp[p].body.success = (resp[p].g_fail = "none")
           /\ resp[p].body.latency_ms \in 0..(3 * MaxStepMs)

\* a probe whose query failed after engine creation and connection took
\* time: the result says so and carries the latency
C15_Witness ==
    /\ resp[1].op = "ping" /\ resp[1].g_fail = "query"
    /\ resp[1].body.success = FALSE
    /\ resp[1].body.latency_ms > 0

-----------------------------------------------------------------------------
\* C16: a list or item read reports HIT exactly when it was answered from
\* an entry the cache held for its key, and MISS exactly when it was
\* recomputed from storage; whenever the cache holds an entry for the key,
\* the entry of an empty list included, the read reports HIT and does not
\* query storage.
C16_HitIffServedFromCache ==
    \A p \in Clients :
        resp[p].op \in ReadOps /\ resp[p].outcome = "ok"
        => /\ resp[p].header = "HIT" <=> resp[p].g_layer = "HIT"
           /\ resp[p].header = "MISS" <=> resp[p].g_storage
           /\ resp[p].g_layer = "HIT" => ~resp[p].g_storage

-----------------------------------------------------------------------------
\* a text of [a-z0-9-] that neither starts nor ends with a hyphen and has
\* no two hyphens in a row
IsCleanSlug(slug) ==
    /\ \A i \in DOMAIN slug : slug[i] \in SlugChars
    /\ slug # <<>> => slug[1] # "-" /\ slug[Len(slug)] # "-"
    /\ \A i \in 1..(Len(slug) - 1) : ~(slug[i] = "-" /\ slug[i + 1] = "-")

-----------------------------------------------------------------------------
\* C18: the backup document holds exactly one upsert statement per record
\* committed when it was generated and none for any other id, and the
\* statements come in ascending created_at order.
C18_OneUpsertPerRecord ==
    target.runs >= 1
    => /\ target.ups = [i \in DOMAIN target.order |-> target.order[i].id]
       /\ \A i, j \in DOMAIN target.order :
             i < j => /\ target.order[i].created_at <= target.order[j].created_at
                      /\ target.order[i].id # target.order[j].id

-----------------------------------------------------------------------------
\* the steps of the mutating handlers: those before the invalidation, and
\* the invalidation
InvalSteps == {"create_inval", "update_inval", "delete_inval"}
BeforeInvalSteps ==
    {"create_slug", "create_check", "create_commit", "update_resolve", "update_commit",
     "delete_resolve", "delete_commit"}

\* a step of a mutating handler writes no cache entry, and before the
\* invalidation it does not touch the cache at all
MutationWritesNoEntry ==
    \A p \in Clients :
        /\ pc[p] \in BeforeInvalSteps /\ pc'[p] # pc[p] => cache' = cache
        /\ pc[p] \in InvalSteps /\ pc'[p] # pc[p]
              => \A k \in DOMAIN cache' : k \in DOMAIN cache /\ cache'[k] = cache[k]

\* C19: create, update and delete issue the cache invalidation only after
\* their storage commit succeeded; when the commit fails the failure reaches
\* the caller and no invalidation is issued; and no step of a mutating
\* handler writes a cache entry.
C19_InvalidateAfterCommit ==
    /\ [](\A p \in Clients :
            /\ pc[p] \in InvalSteps => ctx[p].g_commit = "ok"
            /\ resp[p].op \in MutatingOps
                  => /\ resp[p].g_inval # "none" => resp[p].g_commit = "ok"
                     /\ resp[p].g_commit = "failed"
                           => /\ resp[p].outcome = "StorageFailure"
                              /\ resp[p].code = 500
                     /\ resp[p].outcome # "ok" => resp[p].g_inval = "none")
    /\ [][MutationWritesNoEntry]_vars

\* one request's commit failed and it ended without an invalidation, while
\* another's succeeded and was followed by one
C19_Witness ==
    \E p, q \in Clients :
        /\ resp[p].outcome = "StorageFailure" /\ resp[p].g_commit = "failed"
        /\ resp[p].g_inval = "none"
        /\ resp[q].op \in MutatingOps /\ resp[q].outcome = "ok"
        /\ resp[q].g_commit = "ok" /\ resp[q].g_inval = "ok"

-----------------------------------------------------------------------------
\* C20: a successful invalidation removes every registry entry, i.e. every
\* list key and every item key (the id key and the slug key of a record
\* alike), and leaves every other key with its value.
C20_InvalidationRemovesNamespace ==
    fn.f = "invalidate" /\ fn.stage = "done" /\ fn.out = TRUE
    => /\ \A k \in ListKeys \cup ItemKeys : k \notin DOMAIN cache
       /\ \A k \in DOMAIN fn.arg \ (ListKeys \cup ItemKeys) :
             k \in DOMAIN cache /\ cache[k] = fn.arg[k]
       /\ DOMAIN cache \subseteq DOMAIN fn.arg

\* an invalidation of a keyspace that held every key of the pool
C20_Witness ==
    /\ fn.f = "invalidate" /\ fn.stage = "done" /\ fn.out = TRUE
    /\ DOMAIN fn.arg = KeyPool
    /\ DOMAIN cache = OtherKeys


-----------------------------------------------------------------------------
(* Cache entries against the responses of the reads that wrote them        *)

\* what the HIT branch of a read handler answers from a cached value
\* (databases.py 47-49 and 214-216)
HitResponse(op, value) ==
    IF op = "list" THEN [i \in DOMAIN value |-> DatabaseResponse(value[i])]
    ELSE DatabaseResponse(value)

SetSteps == {"list_set", "item_set"}
GetSteps == {"list_get", "item_get"}

\* the read of client p finishes in this step with a MISS whose set_cache
\* stored its value
MissWrote(p) ==
    /\ pc[p] \in SetSteps
    /\ pc'[p] = "idle"
    /\ resp'[p].header = "MISS"
    /\ ~resp'[p].g_err

-----------------------------------------------------------------------------
(* Age of cache entries                                                     *)

Age(k) == now - cache[k].at

\* C22: every cache entry carries a TTL of at most CACHE_TTL and is younger
\* than it, so whatever a read finds under its key was written less than
\* CACHE_TTL time units earlier, also when the invalidation that should have
\* removed the entry failed.
C22_StalenessBoundedByTtl ==
    /\ \A k \in DOMAIN cache :
          /\ cache[k].ttl \in 1..CACHE_TTL
          /\ Age(k) < cache[k].ttl
    /\ \A p \in Clients :
          (pc[p] \in GetSteps /\ get_cache(ctx[p].cache_key).hit) =>
              Age(ctx[p].cache_key) < CACHE_TTL

\* the invalidation of a committed create failed, and the empty list stored
\* before it is still in the cache one time unit before its TTL runs out
C22_Witness ==
    /\ store # {}
    /\ \E p \in Clients : resp[p].g_commit = "ok" /\ resp[p].g_inval = "failed"
    /\ \E k \in DOMAIN cache :
          /\ json_loads(cache[k].value) = <<>>
          /\ Age(k) = CACHE_TTL - 1

-----------------------------------------------------------------------------
(* A backup script applied over rows that are already there                *)

\* the columns the DO UPDATE SET clause assigns (backup.py 74-81)
UpsertAssigned ==
    {"name", "slug", "type", "connection_string", "description", "status", "updated_at"}

\* psql has reached the end of a script it ran over existing rows
RestoredOver == target.active /\ ~RestoreRunning /\ target.base # {}

\* C23: after a backup script was applied to a target, every row the target
\* held under an id of the script has the script's name, slug, type,
\* connection_string, description, status and updated_at and its own id and
\* created_at, and every row the target held under another id is unchanged.
C23_RestoreOverwritesInPlace ==
    RestoredOver =>
        \A old \in target.base :
            IF \E s \in target.src : s.id = old.id
            THEN \E s \in target.src : \E new \in target.rows :
                    /\ s.id = old.id /\ new.id = old.id
                    /\ \A f \in UpsertAssigned : new[f] = s[f]
                    /\ new.created_at = old.created_at
                    /\ \A other \in target.rows : other.id = old.id => other = new
            ELSE old \in target.rows

-----------------------------------------------------------------------------
(* Timestamps across updates                                                *)

\* the update of client p commits in this step
UpdateCommits(p) == pc[p] = "update_commit" /\ pc'[p] = "update_inval"

\* C24: every update that succeeds leaves the record with an updated_at
\* strictly later than it had, whatever the payload sets, and no step
\* changes the created_at of a record.
C24_UpdatedAtRefreshed ==
    [][/\ \A p \in Clients :
            UpdateCommits(p) =>
                \E old \in store, new \in store' :
                    /\ old.id = ctx[p].database.id /\ new.id = old.id
                    /\ new.updated_at > old.updated_at
       /\ \A old \in store, new \in store' :
            new.id = old.id => new.created_at = old.created_at]_vars

-----------------------------------------------------------------------------
(* What an update leaves alone                                              *)

\* C25: an update that commits replaces the record it resolved by a record
\* with the same id, slug and created_at, whatever the body names (a new
\* name and keys called slug, id or created_at included), leaves every
\* other record as it was, and slugs stay unique.
C25_UpdateKeepsIdSlugCreatedAt ==
    [][\A p \in Clients :
          UpdateCommits(p) =>
              /\ \E old \in store, new \in store' :
                    /\ old.id = ctx[p].database.id
                    /\ \A f \in FixedColumns : new[f] = old[f]
                    /\ store' = (store \ {old}) \cup {new}
              /\ \A a, b \in store' : a.slug = b.slug => a = b]_vars

\* a record was renamed to the name of another record: two records with one
\* name, and the renamed one still has the slug of its first name
C25_Witness ==
    \E a, b \in store :
        /\ a # b /\ a.name = b.name
        /\ a.slug = SlugDb /\ generate_slug(a.name) # a.slug
        /\ \E p \in Clients : resp[p].op = "update" /\ resp[p].outcome = "ok"

-----------------------------------------------------------------------------
(* Updates and deletes of a record that is not there                       *)

MutationResolveSteps == {"update_resolve", "delete_resolve"}

\* C26: an update or delete whose id-or-slug designates no record ends at
\* its lookup with NotFound (404), having committed nothing and issued no
\* invalidation: the table and the cache are exactly as before the step.
C26_NotFoundChangesNothing ==
    [][\A p \in Clients :
          (pc[p] \in MutationResolveSteps /\ pc'[p] # pc[p]
             /\ Designated(ctx[p].id_or_slug) = {}) =>
              /\ pc'[p] = "idle"
              /\ resp'[p].outcome = "NotFound" /\ resp'[p].code = 404
              /\ resp'[p].g_inval = "none" /\ resp'[p].g_commit = "none"
              /\ store' = store
              /\ cache' = cache]_vars

\* an update or delete has just ended in NotFound while the cache holds an
\* entry
C26_Witness ==
    /\ cache # EmptyMap
    /\ \E p \in Clients :
          /\ resp[p].op \in {"update", "delete"}
          /\ resp[p].outcome = "NotFound"
          /\ hist.log[Len(hist.log)].op = resp[p].op
          /\ hist.log[Len(hist.log)].outcome = "NotFound"

-----------------------------------------------------------------------------
(* decrypt_connection_string on damaged input                               *)

\* the bytes b64decode gives for an input it accepts
DecodedBytes(encrypted) ==
    [i \in DOMAIN Base64Data(encrypted) |-> CipherByteInv(Base64Data(encrypted)[i])]

\* the input is empty, is rejected by the base64 decoder, is not a whole
\* number of cipher blocks, or ends in invalid padding
Malformed(encrypted) ==
    \/ encrypted = <<>>
    \/ Base64Rejects(encrypted)
    \/ Len(Base64Data(encrypted)) % BlockBytes # 0
    \/ ~Pkcs7PadOk(DecodedBytes(encrypted))

-----------------------------------------------------------------------------
(* Classification of probe errors                                           *)

\* the text e holds the lower-case word w in some mix of upper and lower case
HasWord(e, w) ==
    \E i \in 1..(Len(e) - Len(w) + 1) : \A j \in 1..Len(w) : ToLower(e[i + j - 1]) = w[j]

\* C28: an error text that holds "timeout" in any case gives the timeout
\* message; otherwise one that holds "authentication" or "password" gives the
\* authentication message; otherwise one that holds "host" or "connection
\* refused" gives the host message, which itself holds "host"; any other text
\* is passed through unchanged.
C28_ErrorClassification ==
    /\ HasWord(MsgHost, WordHost)
    /\ (fn.f = "clean" /\ fn.stage = "cleaned") =>
          fn.out = IF HasWord(fn.arg, WordTimeout) THEN MsgTimeout
                   ELSE IF HasWord(fn.arg, WordAuthentication)
                           \/ HasWord(fn.arg, WordPassword)
                   THEN MsgAuthentication
                   ELSE IF HasWord(fn.arg, WordHost) \/ HasWord(fn.arg, WordRefused)
                   THEN MsgHost
                   ELSE fn.arg

\* a text with "PASSWORD" and "TimeOut" in it was given the timeout message
C28_Witness ==
    /\ fn.f = "clean" /\ fn.stage = "cleaned"
    /\ HasWord(fn.arg, WordPassword) /\ HasWord(fn.arg, WordTimeout)
    /\ fn.out = MsgTimeout

-----------------------------------------------------------------------------
(* Item reads of a record that is not there                                 *)

IsItemKey(k) == Len(k) >= 2 /\ SubSeq(k, 1, 2) = <<"databases:", "item:">>

\* the entry under key k is new or rewritten in this step
EntryWritten(k) == k \in DOMAIN cache' /\ (k \notin DOMAIN cache \/ cache'[k] # cache[k])

\* C29: an item read answers NotFound only from its storage lookup, at a
\* moment when its input designates no record, and that step leaves the
\* cache as it was; an item entry is only ever written by a read whose
\* lookup found a record; and a lookup whose input designates a record (one
\* created after an earlier NotFound included) goes on to answer with it.
C29_NoNegativeCaching ==
    [][/\ \A p \in Clients :
            /\ (pc[p] = "item_get" /\ pc'[p] = "idle") => resp'[p].outcome # "NotFound"
            /\ (pc[p] = "item_query" /\ pc'[p] = "idle") =>
                  /\ resp'[p].outcome = "NotFound"
                  /\ Designated(ctx[p].id_or_slug) = {}
                  /\ cache' = cache
            /\ (pc[p] = "item_query" /\ pc'[p] # pc[p]
                   /\ Designated(ctx[p].id_or_slug) # {}) =>
                  /\ pc'[p] = "item_set"
                  /\ ctx'[p].g_src[1][1] \in Designated(ctx[p].id_or_slug)
       /\ \A k \in DOMAIN cache' :
            (IsItemKey(k) /\ EntryWritten(k)) =>
                \E q \in Clients :
                    /\ pc[q] = "item_set" /\ ctx[q].cache_key = k
                    /\ ctx[q].g_src # <<>>]_vars

\* an item read answered NotFound, the record was created under that slug,
\* and the next read of the same key returned it; the cache holds no item
\* entry
C29_Witness ==
    /\ \A k \in DOMAIN cache : ~IsItemKey(k)
    /\ \E i \in DOMAIN hist.log :
          /\ i + 2 = Len(hist.log)
          /\ hist.log[i].op = "item" /\ hist.log[i].outcome = "NotFound"
          /\ hist.log[i + 1].op = "create" /\ hist.log[i + 1].outcome = "ok"
          /\ hist.log[i + 1].slug = SlugDb
          /\ hist.log[i + 2].op = "item" /\ hist.log[i + 2].outcome = "ok"
          /\ hist.log[i + 2].cache_key = hist.log[i].cache_key
          /\ hist.log[i].cache_key = cache_key_database(SlugDb)

-----------------------------------------------------------------------------
(* Records addressed by their own slug                                      *)

\* C30: whenever an item read, an update or a delete looks up the slug of a
\* stored record, it finds that record, also when the slug reads as a UUID.
C30_ResolvableByOwnSlug ==
    [][\A p \in Clients :
          (pc[p] \in ResolveSteps /\ pc'[p] # pc[p]) =>
              \A r \in store :
                  r.slug = ctx[p].id_or_slug =>
                      /\ pc'[p] # "idle"
                      /\ FoundRow(ctx'[p]) = r]_vars

-----------------------------------------------------------------------------
(* The record count of a backup against its script                          *)

\* the number of INSERT ... ON CONFLICT statements written into a script
UpsertCount(script) ==
    Cardinality({i \in DOMAIN script : script[i] = "INSERT INTO databases ("})

\* C31: every backup and download response reports as its record count the
\* number of upsert statements in the script it returns, also when a create
\* or delete commits while the request is being served.
C31_CountMatchesScript ==
    \A p \in Clients :
        (resp[p].op \in {"backup", "download"} /\ resp[p].outcome = "ok") =>
            resp[p].body.total_records = UpsertCount(ScriptOf(resp[p]))

-----------------------------------------------------------------------------
(* The 409 of create                                                        *)

\* the position of a row in the order of the inserts
InsertIndex(r) == CHOOSE n \in 1..next_id : Uuid4(n) = r.id

\* the create of client p ends in this step with 409 Conflict
CreateConflicts(p) ==
    pc[p] = "create_check" /\ pc'[p] = "idle" /\ resp'[p].outcome = "Conflict"

\* C32: a create ends in Conflict only when a row with its slug was inserted
\* by another request after its resolver found the slug free and before its
\* re-check; so a create that no other mutation overlaps resolves a name
\* collision with a counter suffix and never ends in Conflict.
C32_ConflictOnlyByRace ==
    [][\A p \in Clients :
          CreateConflicts(p) =>
              \E r \in store :
                  /\ r.slug = ctx[p].final_slug
                  /\ InsertIndex(r) > ctx[p].g_seen
                  /\ \E q \in Clients \ {p} :
                        \/ pc[q] = "create_inval" /\ ctx[q].database.id = r.id
                        \/ \E i \in (ctx[p].g_start + 1)..Len(hist.log) :
                              /\ hist.log[i].client = q
                              /\ hist.log[i].op = "create"
                              /\ hist.log[i].slug = r.slug]_vars

\* one create has ended in Conflict, and another create that used the
\* counter suffix for the same name has succeeded
C32_Witness ==
    /\ \E p \in Clients : resp[p].op = "create" /\ resp[p].outcome = "Conflict"
    /\ \E i \in DOMAIN hist.log :
          hist.log[i].op = "create" /\ hist.log[i].slug = SlugDb1
=============================================================================
